---- MODULE Spec2Model ----
(***************************************************************************)
(* Instance process supervisor, shared Redis coordinator and log broadcast *)
(* channel of Gravity-Launcher (routes/instances.js, routes/dependencies.js*)
(* and utils/wsHelper.js), modelled as state machines over the module-level*)
(* state of the server.  Every HTTP handler and every child-process / web- *)
(* socket callback is one action; a handler that awaits is split at the    *)
(* await.  All handlers run on the single Node.js event loop, so each      *)
(* action is atomic.                                                       *)
(***************************************************************************)
EXTENDS Integers, Sequences, FiniteSets, TLC

(* ---------------------------- bounds ----------------------------------- *)
MaxInst == 2          \* registered instances
MaxProcs == 2         \* instance processes spawned in one run
MaxRedisProcs == 2    \* redis-server processes spawned in one run
MaxRedisReqs == 2     \* /redis/start requests in progress at once
MaxObs == 1           \* websocket observers
MaxAppends == 3       \* log lines appended in one run
MaxNames == 2         \* instance names a client may ask for
MaxPorts == 1         \* ports a client may ask for, besides the defaults
MaxCreates == 2       \* /create requests in progress at once
MaxRequests == 3      \* requests to the registry handlers in one run
MaxConfigs == 2       \* /config/:id requests in progress at once
MaxHelpers == 1       \* offline command processes of one instance at once
MaxSocks == 3         \* WebSocket connections the adapter creates in one run
MaxLinkLines == 8     \* lines the adapter logs for its link in one run
MaxDeps == 2          \* dependencies a client may install
MaxInstalls == 2      \* /install requests in progress at once
MaxMigrated == 3      \* instances in the data.json the port migration reads

Ids == 1..MaxInst
Pids == 1..MaxProcs
RPids == 1..MaxRedisProcs
Reqs == 1..MaxRedisReqs
Obs == 1..MaxObs
Names == 1..MaxNames
Ports == 3000..(2999 + MaxPorts)
CReqs == 1..MaxCreates
QReqs == 1..MaxConfigs
NoProc == 0
NoName == 0
NoPort == 0
NoSock == 0

(* ------------------------ program constants ---------------------------- *)
PORT == 3575
MAX_HISTORY == 500         \* wsHelper.js: capacity of globalLogHistory
INSTANCE_HISTORY == 1000   \* instances.js broadcastLog: capacity of logHistory[id]
TERMINAL_HISTORY == 500    \* instances.js broadcastTerminalOutput: capacity of terminalLogs[id]

VARIABLES
    instances,         \* data.instances: ids of the registered instances
    runningProcesses,  \* instances.js runningProcesses: id -> child or NoProc
    children,          \* every ChildProcess spawned by /start: owner id, OS state,
                       \* and the hasStarted flag of the closure of its handlers
    redisKeepAlive,    \* data.settings.redisKeepAlive as persisted in data.json
    helpers,           \* id -> number of live processes spawned by offline commands
    pending,           \* auto-stop HTTP requests sent by close callbacks and not
                       \* yet dispatched by the server
    redisProcess,      \* dependencies.js redisProcess: handle or NoProc
    redisChildren,     \* every redis-server process spawned by /redis/start: OS state
                       \* and the startFailed flag of the closure of its handlers
    redisReq,          \* /redis/start requests: where each is suspended, its child
    out,               \* response and broadcasts of the handler that ran last, and
                       \* the status broadcast last for each instance a client
                       \* watches
    logHistory,        \* instances.js logHistory: id -> lines
    globalLogHistory,  \* wsHelper.js globalLogHistory
    terminalLogs,      \* instances.js terminalLogs: id -> lines
    terminalProcesses, \* instances.js terminalProcesses: id -> a terminal is registered
    clients,           \* wss.clients whose readyState is OPEN
    received,          \* observer -> the messages sent on its socket, in order
    appended,          \* number of lines ever appended to each buffer (the n-th line
                       \* appended to a buffer is the number n), and the number of
                       \* lines the run started with
    subscribed,        \* observer -> the value of appended when it connected
    records,           \* data.instances of data.json: id -> name, port, type, path
    configPort,        \* id -> the port in the config file of the instance on disk
    createReq,         \* /create requests: where each is suspended, its body
    configReq,         \* /config/:id requests: where each is suspended, its
                       \* body and the registry it loaded
    renameReq,         \* the /rename request suspended between two attempts, its
                       \* body and the registry it loaded
    named,             \* the instance name in the error of the handler that ran last
    asked,             \* name and port in the body of the registry request handled
                       \* last, and the number of such requests so far
    linkStates,        \* gsuid-adapter.js linkStates: the state of the one link
                       \* (config.enabled, autoReconnect, ws, status) and the number
                       \* of lines log() has written for it
    sockets,           \* every WebSocket createGsuidConnection made: its readyState
                       \* and whether the reconnect timer of its close handler is set
    downloadState,     \* dependencies.js downloadState: name -> status
    installReq,        \* /install/:name requests: where each is suspended, its
                       \* name, and whether activeDownloads[name] is its controller
    migration          \* migrate_ports.js: the llonebotPort of the instances of
                       \* data.json, in array order, and whether the script ran

supVars == <<instances, runningProcesses, children, helpers, redisKeepAlive, pending,
             redisProcess, redisChildren, redisReq, out>>
logVars == <<logHistory, globalLogHistory, terminalLogs, terminalProcesses,
             clients, received, appended, subscribed>>
regVars == <<records, configPort, createReq, configReq, renameReq, named, asked>>
otherVars == <<linkStates, sockets, downloadState, installReq, migration>>
vars == <<supVars, logVars, regVars, otherVars>>

(* instance.type || 'yunzai': the three launch strategies *)
instanceType(id) ==
    CASE id % 3 = 1 -> "yunzai"
      [] id % 3 = 2 -> "nonebot"
      [] OTHER      -> "gsuid"

(* no entry of data.instances *)
NoRecord == [name |-> NoName, port |-> NoPort, type |-> "", dir |-> <<>>]

(* instance.proxy && instance.proxy.host: the first instance is behind a proxy *)
proxyHost(id) == id = 1

(* messages handed to wsHelper.broadcast *)
LOG(id, data) == [type |-> "LOG", instanceId |-> id, data |-> data]
STATUS(id, status) == [type |-> "STATUS", instanceId |-> id, data |-> status]
GLOBAL_LOG(data) == [type |-> "GLOBAL_LOG", instanceId |-> 0, data |-> data]

(* the status a client that saw every STATUS message so far shows for each
   instance it watches, after the messages ev: broadcastStatus keeps no state
   of its own *)
Shown(status, ev) ==
    [i \in DOMAIN status |->
        LET S == {k \in 1..Len(ev) : ev[k].type = "STATUS" /\ ev[k].instanceId = i}
        IN IF S = {} THEN status[i]
           ELSE ev[CHOOSE k \in S : \A l \in S : l <= k].data]

Response(op, id, res, ev, sig) ==
    [op |-> op, id |-> id, res |-> res, ev |-> ev, sig |-> sig,
     status |-> Shown(out.status, ev)]

(* nothing was broadcast yet, and no client watches *)
Booted == [op |-> "init", id |-> 0, res |-> "", ev |-> <<>>, sig |-> {},
           status |-> <<>>]

(* nothing was broadcast yet: to a client every instance shows as stopped *)
Watched == [Booted EXCEPT !.status = [i \in Ids |-> "stopped"]]

(* Object.keys(runningProcesses).length *)
runningCount(table) == Cardinality({i \in Ids : table[i] # NoProc})

(* a ChildProcess whose close callback has run: no callback of it runs again *)
Closed == [owner |-> 0, state |-> "closed", hasStarted |-> FALSE]

(* the ChildProcess object spawn() returns next *)
FreePids == {p \in Pids : children[p].state = "unborn"}
NewPid == CHOOSE p \in FreePids : \A q \in FreePids : p <= q

(* ----------------------- instances.js guards --------------------------- *)
(* a start guard that takes an instance for running only after its first output *)
AlreadyRunningAfterOutput(id) ==
    runningProcesses[id] # NoProc /\ children[runningProcesses[id]].hasStarted

(* if (runningProcesses[id]) return 400 'Already running' *)
AlreadyRunning(id) == runningProcesses[id] # NoProc

(* a stop guard that asks whether anything at all is running *)
NotRunningAtAll(id) == \A i \in Ids : runningProcesses[i] = NoProc

(* if (!child) return 400 'Not running' *)
NotRunning(id) == runningProcesses[id] = NoProc

(* a close callback that does not look at the keep-alive flag *)
redisLockedNever == FALSE

(* data.settings?.redisKeepAlive === true, read by loadData() in the close callback *)
redisLocked == redisKeepAlive = "true"

(* const runningCount = Object.keys(runningProcesses).length; if (runningCount === 0) *)
LastInstanceClosed(table) == runningCount(table) = 0

(* a removal that empties the table *)
DeletedAll(table, id) == [i \in Ids |-> NoProc]

(* a removal that leaves the entry in place *)
DeletedNothing(table, id) == table

(* delete runningProcesses[id] *)
Deleted(table, id) == [table EXCEPT ![id] = NoProc]

(* child.kill('SIGKILL') / taskkill /PID pid /T /F: a termination request; the
   process is gone for the supervisor only when its close callback runs *)
Kill(ch, p) ==
    IF p \in Pids /\ ch[p].state = "alive" THEN [ch EXCEPT ![p].state = "killed"] ELSE ch

(* ------------------- POST /api/instances/start/:id --------------------- *)
(* the broadcasts of a start that reaches spawn() *)
StartBroadcasts(id) ==
    (IF proxyHost(id) THEN <<LOG(id, "Using Proxy")>> ELSE <<>>)
    \o <<LOG(id, "Starting Instance"), LOG(id, "Working Directory")>>
    \o (CASE instanceType(id) = "gsuid"   -> <<LOG(id, "Starting GSUID Core")>>
          [] instanceType(id) = "nonebot" -> <<LOG(id, "Starting NoneBot"), LOG(id, "Using Python")>>
          [] OTHER                        -> <<LOG(id, "Using Node")>>)
    \o <<STATUS(id, "starting")>>

(* a path check that also tells the clients the instance stopped *)
PathMissingBroadcastsStopped(id) ==
    (IF proxyHost(id) THEN <<LOG(id, "Using Proxy")>> ELSE <<>>)
    \o <<LOG(id, "ERROR path not found"), STATUS(id, "stopped")>>

(* the broadcasts of a start whose instance.path does not exist: the proxy
   line if a proxy is set, then the error line *)
PathMissingBroadcasts(id) ==
    (IF proxyHost(id) THEN <<LOG(id, "Using Proxy")>> ELSE <<>>)
    \o <<LOG(id, "ERROR path not found")>>

(* what a start finds on disk and at spawn(), as far as the handler gets to
   look: the path, for nonebot the venv and bot.py, then the spawn itself *)
StartInputs(id) ==
    IF id \notin instances \/ AlreadyRunning(id) THEN {"Spawns"}
    ELSE IF instanceType(id) = "nonebot"
         THEN {"PathMissing", "VenvMissing", "BotPyMissing", "SpawnFails", "Spawns"}
         ELSE {"PathMissing", "SpawnFails", "Spawns"}

Start(id) ==
    \E input \in StartInputs(id) :
      LET pathExists == input # "PathMissing"
          venvExists == input # "VenvMissing"
          botPyExists == input # "BotPyMissing"
          spawnOk == input # "SpawnFails"
          t == instanceType(id)
          proxyLog == IF proxyHost(id) THEN <<LOG(id, "Using Proxy")>> ELSE <<>>
          startLog == proxyLog \o <<LOG(id, "Starting Instance"), LOG(id, "Working Directory")>>
          Reject(res, ev) == /\ out' = Response("start", id, res, ev, {})
                             /\ UNCHANGED <<runningProcesses, children>>
      IN /\ IF id \notin instances THEN Reject("NotFound", <<>>)
            ELSE IF AlreadyRunning(id) THEN Reject("AlreadyRunning", <<>>)
            ELSE IF ~pathExists
                 THEN Reject("PathMissing", PathMissingBroadcasts(id))
            ELSE IF t = "nonebot" /\ ~venvExists
                 THEN Reject("VenvMissing", startLog \o <<LOG(id, "ERROR venv not found")>>)
            ELSE IF t = "nonebot" /\ ~botPyExists
                 THEN Reject("BotPyMissing", startLog \o <<LOG(id, "ERROR bot.py not found")>>)
            ELSE /\ FreePids # {}
                 /\ runningProcesses' = [runningProcesses EXCEPT ![id] = NewPid]
                 /\ children' = [children EXCEPT ![NewPid] =
                        [owner |-> id,
                         state |-> IF spawnOk THEN "alive" ELSE "spawnfail",
                         hasStarted |-> FALSE]]
                 /\ out' = Response("start", id, "Starting", StartBroadcasts(id), {})
         /\ UNCHANGED <<logVars, otherVars, regVars, helpers, instances, redisKeepAlive, pending, redisProcess,
                        redisChildren, redisReq>>

(* a stdout handler that marks the instance as running before it logs *)
StdoutBroadcastsStatusFirst(id, text, hasStarted) ==
    (IF ~hasStarted THEN <<STATUS(id, "running")>> ELSE <<>>)
    \o (IF text # "" THEN <<LOG(id, text)>> ELSE <<>>)

(* the broadcasts of the stdout handler: if (text) broadcastLog(id, cleanText),
   then if (!hasStarted) broadcastStatus(id, 'running') *)
StdoutBroadcasts(id, text, hasStarted) ==
    (IF text # "" THEN <<LOG(id, text)>> ELSE <<>>)
    \o (IF ~hasStarted THEN <<STATUS(id, "running")>> ELSE <<>>)

(* child.stdout.on('data'): text is the trimmed chunk *)
Stdout(p) ==
    \E text \in {"", "line"} :
      LET id == children[p].owner
      IN /\ children[p].state \in {"alive", "killed"}
         /\ children' = [children EXCEPT ![p].hasStarted = TRUE]
         /\ out' = Response("stdout", id, "",
                            StdoutBroadcasts(id, text, children[p].hasStarted), {})
         /\ UNCHANGED <<logVars, otherVars, regVars, helpers, instances, runningProcesses, redisKeepAlive, pending,
                        redisProcess, redisChildren, redisReq>>

(* child.stderr.on('data') *)
Stderr(p) ==
    \E text \in {"", "line"} :
      LET id == children[p].owner
      IN /\ children[p].state \in {"alive", "killed"}
         /\ out' = Response("stderr", id, "",
                            IF text # "" THEN <<LOG(id, text)>> ELSE <<>>, {})
         /\ UNCHANGED <<logVars, otherVars, regVars, helpers, instances, runningProcesses, children, redisKeepAlive, pending,
                        redisProcess, redisChildren, redisReq>>

(* child.on('error'): the OS refused to spawn the process *)
Error(p) ==
    LET id == children[p].owner
    IN /\ children[p].state = "spawnfail"
       /\ runningProcesses' = Deleted(runningProcesses, id)
       /\ children' = [children EXCEPT ![p].state = "errored"]
       /\ out' = Response("error", id, "",
                          <<LOG(id, "Launch Error"), STATUS(id, "stopped")>>, {})
       /\ UNCHANGED <<logVars, otherVars, regVars, helpers, instances, redisKeepAlive, pending, redisProcess,
                      redisChildren, redisReq>>

(* child.on('close'): the process is gone (own exit, kill, or after a spawn error) *)
Close(p) ==
    LET id == children[p].owner
        table == Deleted(runningProcesses, id)
        last == LastInstanceClosed(table)
        fire == last /\ ~redisLocked
        redisEv == IF ~last THEN <<>>
                   ELSE IF redisLocked THEN <<GLOBAL_LOG("Redis locked - keeping alive")>>
                   ELSE <<GLOBAL_LOG("Last instance closed, stopping Redis")>>
    IN /\ children[p].state \in {"alive", "killed", "errored"}
       /\ runningProcesses' = table
       /\ children' = [children EXCEPT ![p] = Closed]
       /\ out' = Response("close", id, "",
                          <<LOG(id, "Instance Exited"), STATUS(id, "stopped")>> \o redisEv, {})
       /\ pending' = IF fire THEN pending + 1 ELSE pending
       /\ UNCHANGED <<logVars, otherVars, regVars, helpers, instances, redisKeepAlive, redisProcess, redisChildren, redisReq>>

(* ------------------------ GET /api/instances --------------------------- *)
(* status: runningProcesses[inst.id] ? 'running' : 'stopped', for every
   instance of data.json *)
listInstances ==
    [id \in instances |-> IF runningProcesses[id] # NoProc THEN "running" ELSE "stopped"]

(* -------------------- POST /api/instances/stop/:id --------------------- *)
Stop(id) ==
    LET child == runningProcesses[id]
    IN /\ IF NotRunning(id)
          THEN /\ out' = Response("stop", id, "NotRunning", <<>>, {})
               /\ UNCHANGED <<runningProcesses, children>>
          ELSE /\ children' = Kill(children, child)
               /\ runningProcesses' = Deleted(runningProcesses, id)
               /\ out' = Response("stop", id, "StopSent",
                                  <<STATUS(id, "stopped"), LOG(id, "Instance Stopped")>>,
                                  {child})
       /\ UNCHANGED <<logVars, otherVars, regVars, helpers, instances, redisKeepAlive, pending, redisProcess,
                      redisChildren, redisReq>>

(* ------------------- POST /api/instances/command/:id ------------------- *)
(* a command handler that runs the command offline when stdin is closed *)
commandModeFallback(child, stdinOpen, registered) ==
    IF child # NoProc /\ stdinOpen THEN "interactive"
    ELSE IF ~registered THEN "NotFound" ELSE "offline"

(* the branch the handler takes: if (child) { if (!child.stdin ||
   child.stdin.destroyed) 400; else interactive }, else 404 if the instance is
   not in data.json, else offline *)
commandMode(child, stdinOpen, registered) ==
    IF child # NoProc
    THEN IF ~stdinOpen THEN "StdinUnavailable" ELSE "interactive"
    ELSE IF ~registered THEN "NotFound" ELSE "offline"

Command(id) ==
    \E stdinOpen \in BOOLEAN :
      LET mode == commandMode(runningProcesses[id], stdinOpen, id \in instances)
      IN /\ mode = "offline" => helpers[id] < MaxHelpers
         /\ out' = Response("command", id, mode,
                            CASE mode = "interactive" -> <<LOG(id, "> command")>>
                              [] mode = "offline" -> <<LOG(id, "[OFFLINE] > command")>>
                              [] OTHER -> <<>>, {})
         /\ helpers' = IF mode = "offline" THEN [helpers EXCEPT ![id] = @ + 1] ELSE helpers
         /\ UNCHANGED <<logVars, otherVars, regVars, instances, runningProcesses, children,
                        redisKeepAlive, pending, redisProcess, redisChildren, redisReq>>

(* the process of an offline command has no handler for its exit *)
HelperExitBroadcastsStopped(id) == <<STATUS(id, "stopped")>>

(* the process of an offline command exits: tempChild has handlers for its
   output and for 'error' only *)
HelperExitBroadcasts(id) == <<>>

(* tempChild.stdout.on('data') / tempChild.stderr.on('data'): the chunk as it
   is, untrimmed *)
HelperOutput(id) ==
    /\ helpers[id] > 0
    /\ out' = Response("helper output", id, "", <<LOG(id, "output")>>, {})
    /\ UNCHANGED <<logVars, otherVars, regVars, helpers, instances, runningProcesses, children,
                   redisKeepAlive, pending, redisProcess, redisChildren, redisReq>>

(* tempChild.on('error'): powershell could not be started *)
HelperError(id) ==
    /\ helpers[id] > 0
    /\ helpers' = [helpers EXCEPT ![id] = @ - 1]
    /\ out' = Response("helper error", id, "", <<LOG(id, "[EXEC ERR]")>>, {})
    /\ UNCHANGED <<logVars, otherVars, regVars, instances, runningProcesses, children,
                   redisKeepAlive, pending, redisProcess, redisChildren, redisReq>>

HelperExit(id) ==
    /\ helpers[id] > 0
    /\ helpers' = [helpers EXCEPT ![id] = @ - 1]
    /\ out' = Response("helper exit", id, "", HelperExitBroadcasts(id), {})
    /\ UNCHANGED <<logVars, otherVars, regVars, instances, runningProcesses, children,
                   redisKeepAlive, pending, redisProcess, redisChildren, redisReq>>

(* --------------------- POST /api/instances/delete ---------------------- *)
Delete(id) ==
    /\ IF id \notin instances
       THEN /\ out' = Response("delete", id, "NotFound", <<>>, {})
            /\ UNCHANGED <<instances, records>>
       ELSE /\ instances' = instances \ {id}
            /\ records' = [records EXCEPT ![id] = NoRecord]
            /\ out' = Response("delete", id, "success", <<GLOBAL_LOG("Instance deleted")>>, {})
    /\ UNCHANGED <<logVars, otherVars, configPort, createReq, configReq, renameReq, named, asked, helpers,
                   runningProcesses, children, redisKeepAlive, pending, redisProcess,
                   redisChildren, redisReq>>

(* ---------------- POST /api/dependencies/redis/keepalive --------------- *)
KeepAlive(enabled) ==
    /\ redisKeepAlive' = enabled
    /\ out' = Response("keepalive", 0, "success", <<GLOBAL_LOG("Redis keep-alive")>>, {})
    /\ UNCHANGED <<logVars, otherVars, regVars, helpers, instances, runningProcesses, children, pending, redisProcess,
                   redisChildren, redisReq>>

(* ---------------- dependencies.js: the Redis coordinator --------------- *)
FreeRPids == {p \in RPids : redisChildren[p].state = "unborn"}
NewRPid == CHOOSE p \in FreeRPids : \A q \in FreeRPids : p <= q

(* if (redisProcess) return { success: false, error: 'Redis is already running' } *)
RedisAlreadyRunning == redisProcess # NoProc

(* redisProcess.kill(): SIGTERM to the process the handle refers to *)
RedisKill(ch, p) ==
    IF p \in RPids /\ ch[p].state = "alive" THEN [ch EXCEPT ![p].state = "killed"] ELSE ch

(* a stop that does not look at the handle: it signals the processes alive *)
redisStopUnguarded(op) ==
    /\ redisChildren' = [p \in RPids |->
           IF redisChildren[p].state = "alive"
           THEN [redisChildren[p] EXCEPT !.state = "killed"] ELSE redisChildren[p]]
    /\ redisProcess' = NoProc
    /\ out' = Response(op, 0, "success", <<GLOBAL_LOG("Redis stopped")>>,
                       {p \in RPids : redisChildren[p].state = "alive"})

(* body of router.post('/redis/stop'), run for the request called op *)
redisStop(op) ==
    IF redisProcess = NoProc
    THEN /\ out' = Response(op, 0, "Redis is not running", <<>>, {})
         /\ UNCHANGED <<redisProcess, redisChildren>>
    ELSE /\ redisChildren' = RedisKill(redisChildren, redisProcess)
         /\ redisProcess' = NoProc
         /\ out' = Response(op, 0, "success", <<GLOBAL_LOG("Redis stopped")>>, {redisProcess})

(* POST /api/dependencies/redis/stop called by a client *)
RedisStop ==
    /\ redisStop("redis/stop")
    /\ UNCHANGED <<logVars, otherVars, regVars, helpers, instances, runningProcesses, children, redisKeepAlive, pending,
                   redisReq>>

(* index.js: app.use('/api/dependencies', dependencyRoutes) and the route
   router.post('/redis/stop') of dependencies.js *)
MountDependencies == <<"api", "dependencies">>
RedisStopRoute == MountDependencies \o <<"redis", "stop">>

(* the request the close callback sends: localhost:3575, POST /api/deps/redis/stop *)
AutoStopPort == 3575
AutoStopPath == <<"api", "deps", "redis", "stop">>

(* express dispatch of a POST on the server's port: the mounted router whose
   route matches handles it, anything else is answered 404 *)
Routed(port, path) == port = PORT /\ path = RedisStopRoute

(* the server receives one auto-stop request sent by a close callback *)
DispatchAutoStop ==
    /\ pending > 0
    /\ pending' = pending - 1
    /\ IF Routed(AutoStopPort, AutoStopPath)
       THEN redisStop("autostop")
       ELSE /\ out' = Response("autostop", 0, "404", <<>>, {})
            /\ UNCHANGED <<redisProcess, redisChildren>>
    /\ UNCHANGED <<logVars, otherVars, regVars, helpers, instances, runningProcesses, children, redisKeepAlive,
                   redisReq>>

(* POST /redis/start up to the await on taskkill: the handle check *)
RedisStartCheck(r) ==
    /\ redisReq[r].pc = "idle"
    /\ IF RedisAlreadyRunning
       THEN /\ out' = Response("redis/start", r, "Redis is already running", <<>>, {})
            /\ UNCHANGED redisReq
       ELSE /\ redisReq' = [redisReq EXCEPT ![r].pc = "taskkill"]
            /\ out' = Response("redis/start", r, "", <<>>, {})
    /\ UNCHANGED <<logVars, otherVars, regVars, helpers, instances, runningProcesses, children, redisKeepAlive, pending,
                   redisProcess, redisChildren>>

(* exec('taskkill /F /IM redis-server.exe'): terminates every redis-server
   process alive when it runs (none where taskkill is missing or fails) *)
Taskkill(r) ==
    \E works \in BOOLEAN :
      /\ redisReq[r].pc = "taskkill"
      /\ redisReq' = [redisReq EXCEPT ![r].pc = "resolved"]
      /\ redisChildren' = IF works
                          THEN [p \in RPids |->
                                  IF redisChildren[p].state = "alive"
                                  THEN [redisChildren[p] EXCEPT !.state = "killed"]
                                  ELSE redisChildren[p]]
                          ELSE redisChildren
      /\ out' = Response("taskkill", r, "", <<>>,
                         IF works THEN {p \in RPids : redisChildren[p].state = "alive"} ELSE {})
      /\ UNCHANGED <<logVars, otherVars, regVars, helpers, instances, runningProcesses, children, redisKeepAlive, pending,
                     redisProcess>>

(* POST /redis/start from the taskkill callback to the 500 ms wait: find the
   binary, spawn, set the handle, attach the handlers *)
RedisStartSpawn(r) ==
    \E found, spawnOk \in BOOLEAN :
      /\ redisReq[r].pc = "resolved"
      /\ IF ~found
         THEN /\ redisReq' = [redisReq EXCEPT ![r] = [pc |-> "idle", child |-> NoProc]]
              /\ out' = Response("redis/start", r, "Redis not found", <<>>, {})
              /\ UNCHANGED <<redisProcess, redisChildren>>
         ELSE /\ FreeRPids # {}
              /\ redisProcess' = NewRPid
              /\ redisChildren' = [redisChildren EXCEPT ![NewRPid] =
                     [state |-> IF spawnOk THEN "alive" ELSE "spawnfail",
                      startFailed |-> FALSE]]
              /\ redisReq' = [redisReq EXCEPT ![r] = [pc |-> "waiting", child |-> NewRPid]]
              /\ out' = Response("redis/start", r, "", <<>>, {})
      /\ UNCHANGED <<logVars, otherVars, regVars, helpers, instances, runningProcesses, children, redisKeepAlive, pending>>

(* redisProcess.on('close') of the process p *)
RedisClose(p) ==
    \E code \in {0, 1} :
      /\ redisChildren[p].state \in {"alive", "killed", "spawnfail"}
      /\ redisChildren[p].state # "alive" => code # 0
      /\ redisChildren' = [redisChildren EXCEPT ![p] =
             [state |-> "closed",
              startFailed |-> IF code # 0 THEN TRUE ELSE redisChildren[p].startFailed]]
      /\ redisProcess' = NoProc
      /\ out' = Response("redis close", p, "", <<GLOBAL_LOG("Redis process exited")>>, {})
      /\ UNCHANGED <<logVars, otherVars, regVars, helpers, instances, runningProcesses, children, redisKeepAlive, pending,
                     redisReq>>

(* redisProcess.stdout / stderr .on('data') of the process p *)
RedisOutput(p) ==
    \E text \in {"", "line"} :
      /\ redisChildren[p].state \in {"alive", "killed"}
      /\ out' = Response("redis output", p, "",
                         IF text # "" THEN <<GLOBAL_LOG("[REDIS] " \o text)>> ELSE <<>>, {})
      /\ UNCHANGED <<logVars, otherVars, regVars, helpers, instances, runningProcesses, children, redisKeepAlive, pending,
                     redisProcess, redisChildren, redisReq>>

(* POST /redis/start after the 500 ms wait: verify and answer *)
RedisStartVerify(r) ==
    /\ redisReq[r].pc = "waiting"
    /\ redisReq' = [redisReq EXCEPT ![r] = [pc |-> "idle", child |-> NoProc]]
    /\ out' = IF redisChildren[redisReq[r].child].startFailed \/ redisProcess = NoProc
              THEN Response("redis/start", r, "Redis start failed", <<>>, {})
              ELSE Response("redis/start", r, "success", <<GLOBAL_LOG("Redis started")>>, {})
    /\ UNCHANGED <<logVars, otherVars, regVars, helpers, instances, runningProcesses, children, redisKeepAlive, pending,
                   redisProcess, redisChildren>>

(* ------------------ the log buffers and the observers ------------------ *)
(* push, then shift when the length exceeds the capacity *)
PushShift(buf, message, cap) ==
    LET pushed == Append(buf, message)
    IN IF Len(pushed) > cap THEN Tail(pushed) ELSE pushed

(* a store that shifts one line too late *)
storeLogLate(buf, message) == PushShift(buf, message, INSTANCE_HISTORY + 1)

(* a store that puts the new line in front of the older ones *)
storeLogFront(buf, message) ==
    LET pushed == <<message>> \o buf
    IN IF Len(pushed) > INSTANCE_HISTORY THEN Tail(pushed) ELSE pushed

(* instances.js broadcastLog: logHistory[instanceId].push(message); if (length > 1000) shift() *)
storeLog(buf, message) == PushShift(buf, message, INSTANCE_HISTORY)

(* wsHelper.js broadcastGlobalLog: globalLogHistory.push(message); if (length > MAX_HISTORY) shift() *)
storeGlobalLog(buf, message) == PushShift(buf, message, MAX_HISTORY)

(* instances.js broadcastTerminalOutput: terminalLogs[id].push(output); if (length > 500) shift() *)
storeTerminalLog(buf, output) == PushShift(buf, output, TERMINAL_HISTORY)

(* wsHelper.js broadcast: send to every client whose readyState is OPEN *)
broadcast(data) ==
    [o \in Obs |-> IF o \in clients THEN Append(received[o], data) ELSE received[o]]

(* a replay loop that stops one line short *)
ReplayButLast(type, id, buf) ==
    [k \in 1..(Len(buf) - 1) |-> [type |-> type, instanceId |-> id, data |-> buf[k]]]

(* one message per line of a buffer, in the order of the buffer *)
Replay(type, id, buf) == [k \in 1..Len(buf) |-> [type |-> type, instanceId |-> id, data |-> buf[k]]]

(* Object.keys(history).forEach(id => history[id].forEach(send)), keys 1..n *)
RECURSIVE ReplayAll(_, _, _)
ReplayAll(type, history, n) ==
    IF n = 0 THEN <<>>
    ELSE ReplayAll(type, history, n - 1) \o Replay(type, n, history[n])

(* the terminal part of the connection handler: the lines of each terminal
   buffer, then TERMINAL_OPENED when that terminal is registered *)
RECURSIVE ReplayTerminals(_)
ReplayTerminals(n) ==
    IF n = 0 THEN <<>>
    ELSE ReplayTerminals(n - 1) \o Replay("TERMINAL_OUTPUT", n, terminalLogs[n])
         \o (IF terminalProcesses[n]
             THEN <<[type |-> "TERMINAL_OPENED", instanceId |-> n, data |-> 0]>> ELSE <<>>)

(* lines appended since the run started *)
Appends ==
    LET RECURSIVE Sum(_)
        Sum(n) == IF n = 0 THEN 0 ELSE Sum(n - 1) + appended.log[n] + appended.term[n]
    IN appended.global + Sum(MaxInst) - appended.prefilled

(* a handler calls instances.js broadcastLog(id, message) *)
AppendLog(id) ==
    LET message == appended.log[id] + 1
    IN /\ Appends < MaxAppends
       /\ logHistory' = [logHistory EXCEPT ![id] = storeLog(logHistory[id], message)]
       /\ received' = broadcast(LOG(id, message))
       /\ appended' = [appended EXCEPT !.log[id] = message]
       /\ UNCHANGED <<supVars, regVars, otherVars, globalLogHistory, terminalLogs, terminalProcesses,
                      clients, subscribed>>

(* a handler calls wsHelper.js broadcastGlobalLog(message) *)
AppendGlobalLog ==
    LET message == appended.global + 1
    IN /\ Appends < MaxAppends
       /\ globalLogHistory' = storeGlobalLog(globalLogHistory, message)
       /\ received' = broadcast(GLOBAL_LOG(message))
       /\ appended' = [appended EXCEPT !.global = message]
       /\ UNCHANGED <<supVars, regVars, otherVars, logHistory, terminalLogs, terminalProcesses,
                      clients, subscribed>>

(* POST /terminal/:id on a registered instance whose terminal is not open:
   the child is registered, then the first broadcastTerminalOutput stores its
   line and fails at getWss(), which wsHelper.js does not export, so the
   handler ends there *)
TerminalOpen(id) ==
    LET output == appended.term[id] + 1
    IN /\ ~terminalProcesses[id]
       /\ Appends < MaxAppends
       /\ terminalProcesses' = [terminalProcesses EXCEPT ![id] = TRUE]
       /\ terminalLogs' = [terminalLogs EXCEPT ![id] = storeTerminalLog(terminalLogs[id], output)]
       /\ appended' = [appended EXCEPT !.term[id] = output]
       /\ UNCHANGED <<supVars, regVars, otherVars, logHistory, globalLogHistory, clients, received, subscribed>>

(* POST /terminal/:id/close *)
TerminalClose(id) ==
    /\ terminalProcesses[id]
    /\ terminalProcesses' = [terminalProcesses EXCEPT ![id] = FALSE]
    /\ UNCHANGED <<supVars, regVars, otherVars, logHistory, globalLogHistory, terminalLogs, clients,
                   received, appended, subscribed>>

(* wss.on('connection'): WELCOME, the global history, then the registered
   connection handler of instances.js; the socket is in wss.clients from here
   on.  Observers are numbered in the order in which they connect *)
Connect(o) ==
    /\ o \notin clients
    /\ subscribed[o].prefilled = 0 - 1
    /\ \A earlier \in 1..(o - 1) : subscribed[earlier].prefilled # 0 - 1
    /\ clients' = clients \cup {o}
    /\ received' = [received EXCEPT ![o] =
           <<[type |-> "WELCOME", instanceId |-> 0, data |-> 0]>>
           \o Replay("GLOBAL_LOG", 0, globalLogHistory)
           \o ReplayAll("LOG", logHistory, MaxInst)
           \o ReplayTerminals(MaxInst)]
    /\ subscribed' = [subscribed EXCEPT ![o] = appended]
    /\ UNCHANGED <<supVars, regVars, otherVars, logHistory, globalLogHistory, terminalLogs,
                   terminalProcesses, appended>>

(* the socket of an observer closes *)
Disconnect(o) ==
    /\ o \in clients
    /\ clients' = clients \ {o}
    /\ UNCHANGED <<supVars, regVars, otherVars, logHistory, globalLogHistory, terminalLogs,
                   terminalProcesses, received, appended, subscribed>>

(* ------------------ instances.js: the instance registry ---------------- *)
Types == {"yunzai", "nonebot", "gsuid"}

(* a handler suspended at an await, with the locals it resumes with, and its
   completion: the requests in progress are the domain of the table *)
Suspended(reqs, r, locals) ==
    [x \in DOMAIN reqs \cup {r} |-> IF x = r THEN locals ELSE reqs[x]]
Completed(reqs, r) == [x \in DOMAIN reqs \ {r} |-> reqs[x]]

IdleRename == [pc |-> "idle", id |-> 0, newName |-> NoName, data |-> <<>>]

(* the state the registry handlers neither read nor write, but for
   runningProcesses, which /config and /rename read *)
procVars == <<runningProcesses, children, helpers, redisKeepAlive, pending, redisProcess,
              redisChildren, redisReq>>

(* the ids of the entries of an instances array *)
Registered(data) == {i \in Ids : data[i] # NoRecord}

(* the first element of an instances array among those of S: ids are
   Date.now() at registration, so the array is in the order of the ids *)
First(S) == CHOOSE i \in S : \A j \in S : i <= j

(* id: Date.now().toString(), later than every id registered *)
NewId ==
    IF Registered(records) = {} THEN 1
    ELSE 1 + (CHOOSE i \in Registered(records) : \A j \in Registered(records) : j <= i)

(* currentData.instances?.some(i => i.name === instanceName) *)
NameTaken(data, name) == \E i \in Registered(data) : data[i].name = name

(* a port check that finds no holder *)
PortHoldersNone(data, port) == {}

(* /create: for (const inst of instances) if (String(inst.port) === String(instancePort)) *)
PortHolders(data, port) == {i \in Registered(data) : data[i].port = port}

(* fs.existsSync(dir) for the directory of a registered instance *)
DirRegistered(data, dir) == \E i \in Registered(data) : data[i].dir = dir

(* getInstancePort(instance): the port field, else port: of the Yunzai
   config/config/server.yaml, else '2536' *)
getInstancePort(data, i) ==
    IF data[i].port # NoPort THEN data[i].port
    ELSE IF data[i].type = "yunzai" /\ configPort[i] # NoPort THEN configPort[i]
    ELSE 2536

(* the body of the next request to a registry handler *)
Asked(name, port) == [name |-> name, port |-> port, seq |-> asked.seq + 1]

(* POST /create of an instance of the given type, up to
   res.json({ message: 'Creation started' }): the body, the pre-flight checks,
   the name, port and directory checks.  The request takes the first free slot *)
CreateCheck(r, type) ==
    \E name \in Names, port \in Ports \cup {NoPort},
       pre \in {"InvalidName", "RuntimeMissing", "GitMissing", "StrayDirectory", "Pass"} :
      LET instancePort == IF port = NoPort THEN 2536 ELSE port
          holders == PortHolders(records, instancePort)
          Reject(res, who, ev) == /\ out' = Response("create", 0, res, ev, {})
                                  /\ named' = who
                                  /\ UNCHANGED createReq
      IN /\ r \notin DOMAIN createReq
         /\ \A q \in 1..(r - 1) : q \in DOMAIN createReq
         /\ asked.seq < MaxRequests
         /\ asked' = Asked(name, instancePort)
         /\ IF pre = "InvalidName"
            THEN Reject("InvalidName", NoName, <<GLOBAL_LOG("[ERR] Invalid instance name")>>)
            ELSE IF pre = "RuntimeMissing"
            THEN Reject("RuntimeMissing", NoName, <<GLOBAL_LOG("[ERR] runtime not found")>>)
            ELSE IF pre = "GitMissing"
            THEN Reject("GitMissing", NoName, <<GLOBAL_LOG("[ERR] Git not found")>>)
            ELSE IF NameTaken(records, name) THEN Reject("NameConflict", name, <<>>)
            ELSE IF holders # {}
            THEN Reject("PortConflict", records[First(holders)].name, <<>>)
            ELSE IF DirRegistered(records, <<"instances", name>>) \/ pre = "StrayDirectory"
            THEN Reject("DirectoryExists", NoName, <<>>)
            ELSE /\ createReq' = Suspended(createReq, r,
                        [pc |-> "installing", name |-> name, port |-> instancePort,
                         type |-> type])
                 /\ out' = Response("create", 0, "Creation started", <<>>, {})
                 /\ named' = NoName
         /\ UNCHANGED <<logVars, otherVars, procVars, instances, records, configPort, configReq,
                        renameReq>>

(* POST /create after the awaited install steps: the port is written to the
   config of the instance, data.json is read again and the record pushed.
   git clone does not install into the directory of a registered instance *)
CreateCommit(r) ==
    LET c == createReq[r]
        dir == <<"instances", c.name>>
    IN /\ r \in DOMAIN createReq
       /\ c.pc = "installing"
       /\ ~DirRegistered(records, dir)
       /\ NewId \in Ids
       /\ records' = [records EXCEPT ![NewId] =
              [name |-> c.name, port |-> c.port, type |-> c.type, dir |-> dir]]
       /\ instances' = instances \cup {NewId}
       /\ configPort' = [configPort EXCEPT ![NewId] = c.port]
       /\ createReq' = Completed(createReq, r)
       /\ out' = Response("created", NewId, "success",
                          <<GLOBAL_LOG("Instance created successfully"),
                            STATUS(NewId, "stopped")>>, {})
       /\ named' = NoName
       /\ asked' = [asked EXCEPT !.name = c.name, !.port = c.port]
       /\ UNCHANGED <<logVars, otherVars, procVars, configReq, renameReq>>

(* POST /create: an install step rejects, the catch logs the failure *)
CreateFail(r) ==
    /\ r \in DOMAIN createReq
    /\ createReq[r].pc = "installing"
    /\ createReq' = Completed(createReq, r)
    /\ out' = Response("created", 0, "Creation failed",
                       <<GLOBAL_LOG("[ERR] Creation failed")>>, {})
    /\ named' = NoName
    /\ asked' = [asked EXCEPT !.name = createReq[r].name, !.port = createReq[r].port]
    /\ UNCHANGED <<logVars, otherVars, procVars, instances, records, configPort, configReq,
                   renameReq>>

(* POST /import up to saveData: the folder at <<"ext", leaf>> holds an
   instance of the type found there, whose config file names filePort *)
Import ==
    \E name \in Names, port \in Ports \cup {NoPort}, leaf \in Names, type \in Types,
       filePort \in Ports \cup {NoPort}, valid \in BOOLEAN :
      LET dir == <<"ext", leaf>>
          instancePort ==
              IF port # NoPort THEN port
              ELSE IF type \in {"gsuid", "nonebot"} /\ filePort # NoPort THEN filePort
              ELSE IF type = "yunzai" THEN 2536 ELSE 8080
          Reject(res, who) == /\ out' = Response("import", 0, res, <<>>, {})
                              /\ named' = who
                              /\ UNCHANGED <<instances, records, configPort>>
      IN /\ asked.seq < MaxRequests
         /\ asked' = Asked(name, port)
         /\ IF ~valid THEN Reject("InvalidPath", NoName)
            ELSE IF NameTaken(records, name) THEN Reject("NameConflict", name)
            ELSE IF DirRegistered(records, dir) THEN Reject("PathConflict", NoName)
            ELSE /\ NewId \in Ids
                 /\ records' = [records EXCEPT ![NewId] =
                        [name |-> name, port |-> instancePort, type |-> type, dir |-> dir]]
                 /\ instances' = instances \cup {NewId}
                 /\ configPort' = [configPort EXCEPT ![NewId] = filePort]
                 /\ out' = Response("import", NewId, "success",
                                    <<STATUS(NewId, "stopped")>>
                                    \o (IF type = "yunzai"
                                        THEN <<LOG(NewId, "[SYSTEM] installing dependencies")>>
                                        ELSE <<>>), {})
                 /\ named' = NoName
         /\ UNCHANGED <<logVars, otherVars, procVars, createReq, configReq, renameReq>>

(* /config/:id: data.instances.find(i => i.id !== id &&
   String(getInstancePort(i)) === newPort) *)
OtherHolders(data, id, port) ==
    {i \in Registered(data) \ {id} : getInstancePort(data, i) = port}

(* /config/:id from the conflict check on, for an instance that is not
   nonebot: the port goes to the config file and to the record of the
   registry the handler loaded, which is saved whole *)
ConfigWrite(data, id, port) ==
    /\ configPort' = [configPort EXCEPT ![id] = port]
    /\ records' = [data EXCEPT ![id].port = port]
    /\ instances' = Registered(data)
    /\ out' = Response("config", id, "success", <<>>, {})
    /\ named' = NoName

(* POST /config/:id up to its end or to the await on checkPortAvailable *)
ConfigCheck(q, id) ==
    \E port \in Ports \cup {NoPort} :
      LET data == records
          holders == OtherHolders(data, id, port)
          Answer(res, who) == /\ out' = Response("config", id, res, <<>>, {})
                              /\ named' = who
                              /\ UNCHANGED <<instances, records, configPort, configReq>>
      IN /\ q \notin DOMAIN configReq
         /\ \A earlier \in 1..(q - 1) : earlier \in DOMAIN configReq
         /\ asked.seq < MaxRequests
         /\ asked' = Asked(NoName, port)
         /\ IF id \notin Registered(data) THEN Answer("NotFound", NoName)
            ELSE IF data[id].type = "nonebot"
            THEN IF port = NoPort THEN Answer("success", NoName)
                 ELSE ConfigWrite(data, id, port) /\ UNCHANGED configReq
            ELSE IF port = NoPort THEN Answer("success", NoName)
            ELSE IF holders # {} THEN Answer("PortConflict", data[First(holders)].name)
            ELSE IF runningProcesses[id] = NoProc
            THEN /\ configReq' = Suspended(configReq, q,
                        [pc |-> "bindtest", id |-> id, port |-> port, data |-> data])
                 /\ out' = Response("config", id, "", <<>>, {})
                 /\ named' = NoName
                 /\ UNCHANGED <<instances, records, configPort>>
            ELSE ConfigWrite(data, id, port) /\ UNCHANGED configReq
         /\ UNCHANGED <<logVars, otherVars, procVars, createReq, renameReq>>

(* POST /config/:id after checkPortAvailable resolved *)
ConfigSave(q) ==
    \E isAvailable \in BOOLEAN :
      LET c == configReq[q]
      IN /\ q \in DOMAIN configReq
         /\ c.pc = "bindtest"
         /\ configReq' = Completed(configReq, q)
         /\ asked' = [asked EXCEPT !.name = NoName, !.port = c.port]
         /\ IF ~isAvailable
            THEN /\ out' = Response("config", c.id, "PortInUse", <<>>, {})
                 /\ named' = NoName
                 /\ UNCHANGED <<instances, records, configPort>>
            ELSE ConfigWrite(c.data, c.id, c.port)
         /\ UNCHANGED <<logVars, otherVars, procVars, createReq, renameReq>>

(* /rename: fs.renameSync succeeded: name and path of the record of the
   registry the handler loaded are updated and that registry is saved *)
Renamed(data, id, newName, newPath) ==
    /\ records' = [data EXCEPT ![id].name = newName, ![id].dir = newPath]
    /\ instances' = Registered(data)
    /\ out' = Response("rename", id, "success", <<GLOBAL_LOG("Instance renamed")>>, {})

(* POST /rename up to its end or to the wait after a failed first attempt *)
RenameTry(id) ==
    \E newName \in Names, try \in {"StrayDirectory", "Locked", "Moved"} :
      LET data == records
          newPath == <<data[id].dir[1], newName>>
          Answer(res) == /\ out' = Response("rename", id, res, <<>>, {})
                         /\ UNCHANGED <<instances, records, renameReq>>
      IN /\ renameReq.pc = "idle"
         /\ asked.seq < MaxRequests
         /\ asked' = Asked(newName, NoPort)
         /\ named' = NoName
         /\ IF id \notin Registered(data) THEN Answer("NotFound")
            ELSE IF runningProcesses[id] # NoProc THEN Answer("Running")
            ELSE IF DirRegistered(data, newPath) \/ try = "StrayDirectory"
            THEN Answer("DirectoryExists")
            ELSE IF try = "Moved"
            THEN Renamed(data, id, newName, newPath) /\ UNCHANGED renameReq
            ELSE /\ renameReq' = [pc |-> "retry", id |-> id, newName |-> newName,
                                  data |-> data]
                 /\ out' = Response("rename", id, "", <<>>, {})
                 /\ UNCHANGED <<instances, records>>
         /\ UNCHANGED <<logVars, otherVars, procVars, configPort, createReq, configReq>>

(* POST /rename after the waits: a later attempt moves the directory, or all
   fail and the name alone is updated *)
RenameRetry ==
    \E moved \in BOOLEAN :
      LET c == renameReq
          newPath == <<c.data[c.id].dir[1], c.newName>>
      IN /\ c.pc = "retry"
         /\ moved => ~DirRegistered(records, newPath)
         /\ renameReq' = IdleRename
         /\ asked' = [asked EXCEPT !.name = c.newName, !.port = NoPort]
         /\ named' = NoName
         /\ IF moved
            THEN Renamed(c.data, c.id, c.newName, newPath)
            ELSE /\ records' = [c.data EXCEPT ![c.id].name = c.newName]
                 /\ instances' = Registered(c.data)
                 /\ out' = Response("rename", c.id, "success with warning", <<>>, {})
         /\ UNCHANGED <<logVars, otherVars, procVars, configPort, createReq, configReq>>

(* --------------- gsuid-adapter.js: the link to GSUID Core -------------- *)
(* config.gsuidInstanceId of the link, as POST /link stored it *)
gsuidInstanceId == 1

(* the messages log() is called with: '启用链接', '禁用链接', '正在连接: ws://...',
   '✓ 已连接到 GSUID Core', '连接断开', '5秒后重连...' *)
Line == [enabled |-> 0 - 1, disabled |-> 0 - 2, connecting |-> 0 - 3,
         connected |-> 0 - 4, closed |-> 0 - 5, reconnect |-> 0 - 6]

(* the id of the link of links.json *)
linkId == 1

(* log(linkId, message) for each of the lines: the link names an instance, so
   each goes to wsHelper.js broadcastLog(gsuidInstanceId, fullMsg), which
   sends { type: 'LOG' } to the open clients and stores nothing *)
log(lines) ==
    [o \in Obs |->
       IF o \in clients
       THEN received[o] \o [k \in 1..Len(lines) |-> LOG(gsuidInstanceId, lines[k])]
       ELSE received[o]]

(* new WebSocket(wsUrl) in createGsuidConnection: a socket that is CONNECTING,
   the reconnect timer of its close handler not set *)
createGsuidConnection(socks) ==
    Append(socks, [readyState |-> "CONNECTING", timer |-> FALSE])

(* POST /link/:linkId/toggle with body { enabled }.  state.ws.close() starts
   the closing handshake, or aborts the handshake in progress, and the close
   event comes later; it has no effect on a socket that is closing or closed *)
Toggle(enabled) ==
    LET state == linkStates[linkId]
        create == enabled /\ (state.ws = NoSock \/ sockets[state.ws].readyState # "OPEN")
        lines == IF enabled
                 THEN <<Line.enabled>> \o (IF create THEN <<Line.connecting>> ELSE <<>>)
                 ELSE <<Line.disabled>>
    IN /\ linkId \in DOMAIN linkStates
       /\ state.lines + Len(lines) <= MaxLinkLines
       /\ create => Len(sockets) < MaxSocks
       /\ IF enabled
          THEN /\ linkStates' = [linkStates EXCEPT ![linkId] =
                      [state EXCEPT !.enabled = TRUE, !.status = "connecting",
                                    !.autoReconnect = TRUE,
                                    !.ws = IF create THEN Len(sockets) + 1 ELSE @,
                                    !.lines = @ + Len(lines)]]
               /\ sockets' = IF create THEN createGsuidConnection(sockets) ELSE sockets
          ELSE /\ linkStates' = [linkStates EXCEPT ![linkId] =
                      [state EXCEPT !.enabled = FALSE, !.status = "disabled",
                                    !.autoReconnect = FALSE, !.ws = NoSock,
                                    !.lines = @ + Len(lines)]]
               /\ sockets' = IF state.ws # NoSock
                                /\ sockets[state.ws].readyState \in {"CONNECTING", "OPEN"}
                             THEN [sockets EXCEPT ![state.ws].readyState = "CLOSING"]
                             ELSE sockets
       /\ received' = log(lines)
       /\ UNCHANGED <<supVars, regVars, downloadState, installReq, migration, logHistory, globalLogHistory,
                      terminalLogs, terminalProcesses, clients, appended, subscribed>>

(* ws.on('open') of the socket s *)
SocketOpen(s) ==
    /\ s \in DOMAIN sockets
    /\ sockets[s].readyState = "CONNECTING"
    /\ linkStates[linkId].lines + 1 <= MaxLinkLines
    /\ sockets' = [sockets EXCEPT ![s].readyState = "OPEN"]
    /\ linkStates' = [linkStates EXCEPT ![linkId].status = "connected",
                                        ![linkId].lines = @ + 1]
    /\ received' = log(<<Line.connected>>)
    /\ UNCHANGED <<supVars, regVars, downloadState, installReq, migration, logHistory, globalLogHistory,
                   terminalLogs, terminalProcesses, clients, appended, subscribed>>

(* ws.on('close') of the socket s: the connection failed, was dropped by the
   peer, or was closed by the adapter *)
SocketClose(s) ==
    LET state == linkStates[linkId]
        retry == state.enabled /\ state.autoReconnect
        lines == <<Line.closed>> \o (IF retry THEN <<Line.reconnect>> ELSE <<>>)
    IN /\ s \in DOMAIN sockets
       /\ sockets[s].readyState \in {"CONNECTING", "OPEN", "CLOSING"}
       /\ state.lines + Len(lines) <= MaxLinkLines
       /\ sockets' = [sockets EXCEPT ![s] = [readyState |-> "CLOSED", timer |-> retry]]
       /\ linkStates' = [linkStates EXCEPT ![linkId] =
              [state EXCEPT !.status = IF state.enabled THEN "connecting" ELSE @,
                            !.lines = @ + Len(lines)]]
       /\ received' = log(lines)
       /\ UNCHANGED <<supVars, regVars, downloadState, installReq, migration, logHistory, globalLogHistory,
                      terminalLogs, terminalProcesses, clients, appended, subscribed>>

(* the setTimeout(..., 5000) callback set by the close handler of the socket s *)
ReconnectTimer(s) ==
    LET state == linkStates[linkId]
        create == state.enabled /\ state.autoReconnect
        lines == IF create THEN <<Line.connecting>> ELSE <<>>
    IN /\ s \in DOMAIN sockets
       /\ sockets[s].timer
       /\ state.lines + Len(lines) <= MaxLinkLines
       /\ create => Len(sockets) < MaxSocks
       /\ sockets' = [IF create THEN createGsuidConnection(sockets) ELSE sockets
                        EXCEPT ![s].timer = FALSE]
       /\ linkStates' = [linkStates EXCEPT ![linkId] =
              [state EXCEPT !.ws = IF create THEN Len(sockets) + 1 ELSE @,
                            !.lines = @ + Len(lines)]]
       /\ received' = log(lines)
       /\ UNCHANGED <<supVars, regVars, downloadState, installReq, migration, logHistory, globalLogHistory,
                      terminalLogs, terminalProcesses, clients, appended, subscribed>>

(* -------------- dependencies.js: installing a dependency --------------- *)
(* delete activeDownloads[name] *)
Unregistered(reqs, n) ==
    [t \in DOMAIN reqs |-> IF reqs[t].name = n THEN [reqs[t] EXCEPT !.active = FALSE]
                           ELSE reqs[t]]

(* a rejection of the download of some request has not reached the catch of
   its /install handler yet: the catch runs before any other callback *)
Rejecting == \E t \in DOMAIN installReq : installReq[t].pc = "rejected"

(* POST /install/:name up to the await on axios() in downloadFile: the state
   check, downloadState[name] = { status: 'downloading' }, and the controller
   of the new download stored in activeDownloads[name] *)
Install(t, n) ==
    /\ ~Rejecting
    /\ t \notin DOMAIN installReq
    /\ \A earlier \in 1..(t - 1) : earlier \in DOMAIN installReq
    /\ IF downloadState[n] = "downloading"
       THEN /\ out' = Response("install", n, "Already downloading", <<>>, {})
            /\ UNCHANGED <<downloadState, installReq>>
       ELSE /\ downloadState' = [downloadState EXCEPT ![n] = "downloading"]
            /\ installReq' = Suspended(Unregistered(installReq, n), t,
                                 [name |-> n, pc |-> "connecting", active |-> TRUE])
            /\ out' = Response("install", n, "Download started",
                               <<GLOBAL_LOG("Downloading"), GLOBAL_LOG("Source"),
                                 GLOBAL_LOG("URL")>>, {})
    /\ UNCHANGED <<logVars, regVars, linkStates, sockets, migration, procVars, instances>>

(* downloadFile: axios() resolved with the response stream; the promise that
   pipes it to the file is created and the abort listener added *)
Streaming(t) ==
    /\ ~Rejecting
    /\ t \in DOMAIN installReq
    /\ installReq[t].pc = "connecting"
    /\ installReq' = [installReq EXCEPT ![t].pc = "streaming"]
    /\ out' = Response("download", installReq[t].name, "", <<>>, {})
    /\ UNCHANGED <<logVars, regVars, linkStates, sockets, migration, procVars, instances,
                   downloadState>>

(* downloadFile: writer.on('finish') deletes activeDownloads[name] and
   resolves; /install goes on to downloadState[name].status = 'extracting'
   and the await on the extraction *)
Finished(t) ==
    LET n == installReq[t].name
    IN /\ ~Rejecting
       /\ t \in DOMAIN installReq
       /\ installReq[t].pc = "streaming"
       /\ installReq' = [Unregistered(installReq, n) EXCEPT ![t].pc = "extracting"]
       /\ downloadState' = [downloadState EXCEPT ![n] = "extracting"]
       /\ out' = Response("download", n, "complete",
                          <<GLOBAL_LOG("Download complete"), GLOBAL_LOG("Extracting")>>, {})
       /\ UNCHANGED <<logVars, regVars, linkStates, sockets, migration, procVars, instances>>

(* the catch of /install: downloadState[name] = { status: 'error' } *)
Failed(reqs, t, reason) ==
    /\ installReq' = Completed(reqs, t)
    /\ downloadState' = [downloadState EXCEPT ![installReq[t].name] = "error"]
    /\ out' = Response("install failed", installReq[t].name, reason,
                       <<GLOBAL_LOG("Error installing")>>, {})

(* the request fails (axios() rejects) or writer.on('error'): the entry of
   activeDownloads[name] is deleted, the promise rejects, the catch runs *)
DownloadError(t) ==
    /\ ~Rejecting
    /\ t \in DOMAIN installReq
    /\ installReq[t].pc \in {"connecting", "streaming"}
    /\ Failed(Unregistered(installReq, installReq[t].name), t, "download error")
    /\ UNCHANGED <<logVars, regVars, linkStates, sockets, migration, procVars, instances>>

(* the extraction ends: downloadState[name] = { status: 'installed' }, or the
   catch when it failed *)
Extracted(t) ==
    \E extracted \in BOOLEAN :
      /\ ~Rejecting
      /\ t \in DOMAIN installReq
      /\ installReq[t].pc = "extracting"
      /\ IF extracted
         THEN /\ installReq' = Completed(installReq, t)
              /\ downloadState' = [downloadState EXCEPT ![installReq[t].name] = "installed"]
              /\ out' = Response("installed", installReq[t].name, "",
                                 <<GLOBAL_LOG("Installed Successfully"), GLOBAL_LOG("Path")>>,
                                 {})
         ELSE Failed(installReq, t, "Extraction failed")
      /\ UNCHANGED <<logVars, regVars, linkStates, sockets, migration, procVars, instances>>

(* part_000 cancelDownload(name): controller.abort() on the download whose
   controller activeDownloads[name] holds, which rejects it (the abort
   listener, or axios while the request is pending), and delete of the entry *)
cancelDownload(reqs, n) ==
    [t \in DOMAIN reqs |->
       IF reqs[t].name = n /\ reqs[t].active
       THEN [reqs[t] EXCEPT !.pc = "rejected", !.active = FALSE] ELSE reqs[t]]

(* POST /cancel/:name *)
Cancel(n) ==
    /\ ~Rejecting
    /\ installReq' = cancelDownload(installReq, n)
    /\ IF downloadState[n] \in {"downloading", "extracting"}
       THEN /\ downloadState' = [downloadState EXCEPT ![n] = "idle"]
            /\ out' = Response("cancel", n, "success",
                               <<GLOBAL_LOG("Download cancelled")>>, {})
       ELSE /\ out' = Response("cancel", n, "No active download to cancel", <<>>, {})
            /\ UNCHANGED downloadState
    /\ UNCHANGED <<logVars, regVars, linkStates, sockets, migration, procVars, instances>>

(* the catch of the /install whose download a cancel aborted; cancelDownload
   has deleted the entry of activeDownloads[name] already *)
InstallCatch(t) ==
    /\ t \in DOMAIN installReq
    /\ installReq[t].pc = "rejected"
    /\ Failed(installReq, t, "Download cancelled")
    /\ UNCHANGED <<logVars, regVars, linkStates, sockets, migration, procVars, instances>>

(* --------------------------- migrate_ports.js -------------------------- *)
(* an assignment that does not record the port it gave out *)
usedAfterForgotten(used, port) == used

(* usedPorts.add(port) *)
usedAfter(used, port) == used \cup {port}

(* let port = 3000; while (usedPorts.has(port)) port++ *)
RECURSIVE nextPort(_, _)
nextPort(used, port) == IF port \in used THEN nextPort(used, port + 1) ELSE port

(* data.instances.forEach(inst => ...), from the k-th instance on *)
RECURSIVE assignPorts(_, _, _)
assignPorts(ports, k, used) ==
    IF k > Len(ports) THEN ports
    ELSE IF ports[k] = NoPort
    THEN LET port == nextPort(used, 3000)
         IN assignPorts([ports EXCEPT ![k] = port], k + 1, usedAfter(used, port))
    ELSE assignPorts(ports, k + 1, used)

(* node migrate_ports.js: usedPorts = new Set(data.instances.map(i =>
   i.llonebotPort).filter(p => p)), the ports are assigned and, if any was,
   data.json is written *)
Migrate ==
    LET ports == migration.llonebotPort
        usedPorts == {ports[k] : k \in 1..Len(ports)} \ {NoPort}
        migrated == assignPorts(ports, 1, usedPorts)
        changed == \E k \in 1..Len(ports) : ports[k] = NoPort
    IN /\ ~migration.changed
       /\ migration' = [llonebotPort |-> migrated, changed |-> changed]
       /\ UNCHANGED <<supVars, logVars, regVars, linkStates, sockets, downloadState, installReq>>

(* the modules beside the instance routes, as they are when the server
   starts: no link in links.json, let downloadState = { nodejs: { status:
   'idle' }, ... } and no download, and a data.json without instances that
   the port migration has not changed *)
Elsewhere ==
    /\ linkStates = <<>>
    /\ sockets = <<>>
    /\ downloadState = [n \in 1..MaxDeps |-> "idle"]
    /\ installReq = <<>>
    /\ migration = [llonebotPort |-> <<>>, changed |-> FALSE]

(* ------------------------- the specifications -------------------------- *)
(* no /create, /config or /rename request in progress *)
NoRequest ==
    /\ createReq = <<>>
    /\ configReq = <<>>
    /\ renameReq = IdleRename
    /\ named = NoName
    /\ asked = [name |-> NoName, port |-> NoPort, seq |-> 0]

(* a registry in which every instance was created under its own name and port *)
RegistryBuilt ==
    /\ records = [i \in Ids |-> [name |-> i, port |-> 3000 + i, type |-> instanceType(i),
                                  dir |-> <<"instances", i>>]]
    /\ configPort = [i \in Ids |-> 3000 + i]
    /\ NoRequest

(* the server after construction, with every instance of the registry created *)
Constructed ==
    /\ instances = Ids
    /\ RegistryBuilt
    /\ runningProcesses = [i \in Ids |-> NoProc]
    /\ children = [p \in Pids |-> [owner |-> 0, state |-> "unborn", hasStarted |-> FALSE]]
    /\ redisKeepAlive = "unset"
    /\ pending = 0
    /\ helpers = [i \in Ids |-> 0]
    /\ redisReq = [r \in Reqs |-> [pc |-> "idle", child |-> NoProc]]

Construct == Constructed /\ out = Booted

RedisDown ==
    /\ redisProcess = NoProc
    /\ redisChildren = [p \in RPids |-> [state |-> "unborn", startFailed |-> FALSE]]

(* Redis as a completed /redis/start leaves it *)
RedisUp ==
    /\ redisProcess = 1
    /\ redisChildren = [p \in RPids |->
           [state |-> IF p = 1 THEN "alive" ELSE "unborn", startFailed |-> FALSE]]

NoCount == [log |-> [i \in Ids |-> 0], global |-> 0, term |-> [i \in Ids |-> 0],
            prefilled |-> 0 - 1]

LogsEmpty ==
    /\ logHistory = [i \in Ids |-> <<>>]
    /\ globalLogHistory = <<>>
    /\ terminalLogs = [i \in Ids |-> <<>>]
    /\ terminalProcesses = [i \in Ids |-> FALSE]
    /\ clients = {}
    /\ received = [o \in Obs |-> <<>>]
    /\ appended = [NoCount EXCEPT !.prefilled = 0]
    /\ subscribed = [o \in Obs |-> NoCount]

(* a buffer after n lines, n not above its capacity *)
FirstLines(n) == [k \in 1..n |-> k]

(* Lifecycle: the start, stop and delete handlers and the callbacks of the
   processes they spawn *)
Init == Construct /\ RedisDown /\ LogsEmpty /\ Elsewhere

Next ==
    \/ \E id \in Ids : Start(id)
    \/ \E p \in Pids : Stdout(p)
    \/ \E p \in Pids : Error(p)
    \/ \E p \in Pids : Close(p)
    \/ \E id \in Ids : Stop(id)
    \/ \E id \in Ids : Delete(id)

Spec == Init /\ [][Next]_vars

(* Auto-stop: removals from the table, the keep-alive flag, the request the
   close callback sends and its dispatch, with Redis started beforehand *)
InitAutoStop == Construct /\ RedisUp /\ LogsEmpty /\ Elsewhere

NextAutoStop ==
    \/ \E id \in Ids : Start(id)
    \/ \E p \in Pids : Error(p)
    \/ \E p \in Pids : Close(p)
    \/ \E id \in Ids : Stop(id)
    \/ \E enabled \in {"true", "false"} : KeepAlive(enabled)
    \/ RedisStop
    \/ DispatchAutoStop
    \/ \E p \in RPids : RedisClose(p)

SpecAutoStop == InitAutoStop /\ [][NextAutoStop]_vars

(* Two instances running: instances 1 and 2 started, keep-alive never set *)
InitTwoRunning ==
    /\ instances = Ids
    /\ RegistryBuilt
    /\ runningProcesses = [i \in Ids |-> IF i \in {1, 2} THEN i ELSE NoProc]
    /\ children = [p \in Pids |->
           IF p \in {1, 2} THEN [owner |-> p, state |-> "alive", hasStarted |-> FALSE]
           ELSE [owner |-> 0, state |-> "unborn", hasStarted |-> FALSE]]
    /\ redisKeepAlive = "unset"
    /\ pending = 0
    /\ helpers = [i \in Ids |-> 0]
    /\ redisReq = [r \in Reqs |-> [pc |-> "idle", child |-> NoProc]]
    /\ out = [op |-> "start", id |-> 2, res |-> "Starting", ev |-> StartBroadcasts(2),
               sig |-> {}, status |-> <<>>]
    /\ RedisUp /\ LogsEmpty /\ Elsewhere

NextTwoRunning ==
    \/ \E id \in Ids : Stop(id)
    \/ \E p \in Pids : Close(p)
    \/ \E p \in Pids : Stdout(p)
    \/ \E p \in Pids : Stderr(p)
    \/ \E id \in Ids : Command(id)
    \/ \E id \in Ids : HelperOutput(id)
    \/ \E id \in Ids : HelperError(id)
    \/ \E id \in Ids : HelperExit(id)

SpecTwoRunning == InitTwoRunning /\ [][NextTwoRunning]_vars

(* Coordinator: the Redis start / stop / close handlers on their own *)
InitRedis == Construct /\ RedisDown /\ LogsEmpty /\ Elsewhere

NextRedis ==
    \/ \E r \in Reqs : RedisStartCheck(r)
    \/ \E r \in Reqs : Taskkill(r)
    \/ \E r \in Reqs : RedisStartSpawn(r)
    \/ \E r \in Reqs : RedisStartVerify(r)
    \/ \E p \in RPids : RedisClose(p)
    \/ \E p \in RPids : RedisOutput(p)
    \/ RedisStop

SpecRedis == InitRedis /\ [][NextRedis]_vars

(* the server with no observer connected and one of the buffers named in
   fulls filled to its capacity, as that many appends leave it *)
Filled(fulls) ==
    /\ Construct /\ RedisDown
    /\ terminalProcesses = [i \in Ids |-> FALSE]
    /\ clients = {}
    /\ received = [o \in Obs |-> <<>>]
    /\ subscribed = [o \in Obs |-> NoCount]
    /\ \E full \in fulls :
         LET nl == IF full = "log" THEN INSTANCE_HISTORY ELSE 0
             ng == IF full = "global" THEN MAX_HISTORY ELSE 0
             nt == IF full = "terminal" THEN TERMINAL_HISTORY ELSE 0
         IN /\ logHistory = [i \in Ids |-> IF i = 1 THEN FirstLines(nl) ELSE <<>>]
            /\ globalLogHistory = FirstLines(ng)
            /\ terminalLogs = [i \in Ids |-> IF i = 1 THEN FirstLines(nt) ELSE <<>>]
            /\ appended = [log |-> [i \in Ids |-> IF i = 1 THEN nl ELSE 0],
                           global |-> ng,
                           term |-> [i \in Ids |-> IF i = 1 THEN nt ELSE 0],
                           prefilled |-> nl + ng + nt]

(* Buffers: appends to the instance, global and terminal buffers *)
InitBuffers == Filled({"none", "global", "log", "terminal"}) /\ Elsewhere

NextBuffers ==
    \/ \E id \in Ids : AppendLog(id)
    \/ AppendGlobalLog
    \/ \E id \in Ids : TerminalOpen(id)
    \/ \E id \in Ids : TerminalClose(id)

SpecBuffers == InitBuffers /\ [][NextBuffers]_vars

(* Log channel: appends to the instance and global buffers while observers
   connect and disconnect *)
InitLog == Filled({"none", "global", "log"}) /\ Elsewhere

NextLog ==
    \/ \E id \in Ids : AppendLog(id)
    \/ AppendGlobalLog
    \/ \E o \in Obs : Connect(o)
    \/ \E o \in Obs : Disconnect(o)

SpecLog == InitLog /\ [][NextLog]_vars

(* Channel: every buffer, terminal ones included, with observers connecting
   and disconnecting, from empty buffers *)
InitChannel == Filled({"none"}) /\ Elsewhere

NextChannel ==
    \/ \E id \in Ids : AppendLog(id)
    \/ AppendGlobalLog
    \/ \E id \in Ids : TerminalOpen(id)
    \/ \E id \in Ids : TerminalClose(id)
    \/ \E o \in Obs : Connect(o)
    \/ \E o \in Obs : Disconnect(o)

SpecChannel == InitChannel /\ [][NextChannel]_vars

(* an empty registry: data.json as index.js creates it *)
RegistryEmpty ==
    /\ instances = {}
    /\ records = [i \in Ids |-> NoRecord]
    /\ configPort = [i \in Ids |-> NoPort]
    /\ NoRequest

(* no instance process, no request to Redis *)
NothingRunning ==
    /\ runningProcesses = [i \in Ids |-> NoProc]
    /\ children = [p \in Pids |-> [owner |-> 0, state |-> "unborn", hasStarted |-> FALSE]]
    /\ redisKeepAlive = "unset"
    /\ pending = 0
    /\ helpers = [i \in Ids |-> 0]
    /\ redisReq = [r \in Reqs |-> [pc |-> "idle", child |-> NoProc]]
    /\ out = Booted

(* Creation: /create requests for Yunzai instances, overlapping each other *)
InitCreate == RegistryEmpty /\ NothingRunning /\ RedisDown /\ LogsEmpty /\ Elsewhere

NextCreate ==
    \/ \E r \in CReqs : CreateCheck(r, "yunzai")
    \/ \E r \in CReqs : CreateCommit(r)
    \/ \E r \in CReqs : CreateFail(r)

SpecCreate == InitCreate /\ [][NextCreate]_vars

(* Status: start, stop and the callbacks of the processes, seen by a client
   that follows the STATUS messages of every instance *)
InitStatus == Constructed /\ out = Watched /\ RedisDown /\ LogsEmpty /\ Elsewhere

NextStatus ==
    \/ \E id \in Ids : Start(id)
    \/ \E p \in Pids : Stdout(p)
    \/ \E p \in Pids : Stderr(p)
    \/ \E p \in Pids : Error(p)
    \/ \E p \in Pids : Close(p)
    \/ \E id \in Ids : Stop(id)

SpecStatus == InitStatus /\ [][NextStatus]_vars

(* a caller of getInstancePort(instance), as /checkPort and /config/:id are *)
GetInstancePort(id) ==
    /\ id \in Registered(records)
    /\ out' = Response("port", id, getInstancePort(records, id), <<>>, {})
    /\ named' = records[id].name
    /\ UNCHANGED <<logVars, otherVars, procVars, instances, records, configPort, createReq,
                   configReq, renameReq, asked>>

(* Ports: getInstancePort on a data.json of any age: records of every type,
   with and without a port field, with and without a port in the config file *)
InitPort ==
    /\ instances = Ids
    /\ \E types \in [Ids -> Types], ports \in [Ids -> Ports \cup {NoPort}] :
          records = [i \in Ids |-> [name |-> i, port |-> ports[i], type |-> types[i],
                                    dir |-> <<"instances", i>>]]
    /\ configPort \in [Ids -> Ports \cup {NoPort}]
    /\ NoRequest
    /\ NothingRunning /\ RedisDown /\ LogsEmpty /\ Elsewhere

NextPort == \E id \in Ids : GetInstancePort(id)

SpecPort == InitPort /\ [][NextPort]_vars

(* Registry: create, import, config update and rename of instances of every
   type, none of them running *)
InitRegistry == RegistryEmpty /\ NothingRunning /\ RedisDown /\ LogsEmpty /\ Elsewhere

NextRegistry ==
    \/ \E r \in CReqs, type \in Types : CreateCheck(r, type)
    \/ \E r \in CReqs : CreateCommit(r)
    \/ \E r \in CReqs : CreateFail(r)
    \/ Import
    \/ \E q \in QReqs, id \in Ids : ConfigCheck(q, id)
    \/ \E q \in QReqs : ConfigSave(q)
    \/ \E id \in Ids : RenameTry(id)
    \/ RenameRetry

SpecRegistry == InitRegistry /\ [][NextRegistry]_vars

(* Config: /config/:id port updates, overlapping each other, on a registry of
   stopped Yunzai and GSUID instances, each with its own port *)
InitConfig ==
    /\ instances = Ids
    /\ \E types \in [Ids -> {"yunzai", "gsuid"}] :
          records = [i \in Ids |-> [name |-> i, port |-> 3000 + MaxPorts + i,
                                    type |-> types[i], dir |-> <<"instances", i>>]]
    /\ configPort = [i \in Ids |-> 3000 + MaxPorts + i]
    /\ NoRequest
    /\ NothingRunning /\ RedisDown /\ LogsEmpty /\ Elsewhere

NextConfig ==
    \/ \E q \in QReqs, id \in Ids : ConfigCheck(q, id)
    \/ \E q \in QReqs : ConfigSave(q)

SpecConfig == InitConfig /\ [][NextConfig]_vars

(* Link: initLinks loaded the link of links.json, disabled and without a
   connection; it is switched on and off while its connections open and
   close, observers connect and disconnect, and instance lines are appended *)
InitLink ==
    /\ Construct /\ RedisDown /\ LogsEmpty
    /\ linkStates = [l \in {linkId} |->
                       [enabled |-> FALSE, autoReconnect |-> FALSE, ws |-> NoSock,
                        status |-> "disabled", lines |-> 0]]
    /\ sockets = <<>>
    /\ downloadState = [n \in 1..MaxDeps |-> "idle"]
    /\ installReq = <<>>
    /\ migration = [llonebotPort |-> <<>>, changed |-> FALSE]

NextLink ==
    \/ \E enabled \in BOOLEAN : Toggle(enabled)
    \/ \E s \in 1..MaxSocks : SocketOpen(s)
    \/ \E s \in 1..MaxSocks : SocketClose(s)
    \/ \E s \in 1..MaxSocks : ReconnectTimer(s)
    \/ AppendLog(gsuidInstanceId)
    \/ \E o \in Obs : Connect(o)
    \/ \E o \in Obs : Disconnect(o)

SpecLink == InitLink /\ [][NextLink]_vars

(* Install: dependencies are installed and their downloads cancelled, from
   the state the server starts in *)
NextInstall ==
    \/ \E t \in 1..MaxInstalls, n \in 1..MaxDeps : Install(t, n)
    \/ \E t \in 1..MaxInstalls : Streaming(t)
    \/ \E t \in 1..MaxInstalls : Finished(t)
    \/ \E t \in 1..MaxInstalls : DownloadError(t)
    \/ \E t \in 1..MaxInstalls : Extracted(t)
    \/ \E n \in 1..MaxDeps : Cancel(n)
    \/ \E t \in 1..MaxInstalls : InstallCatch(t)

SpecInstall == Init /\ [][NextInstall]_vars

(* Migrate: the port migration on a data.json of up to MaxMigrated
   instances, some with an llonebotPort (a port from 3000 on) and some
   without *)
InitMigrate ==
    /\ Construct /\ RedisDown /\ LogsEmpty
    /\ linkStates = <<>>
    /\ sockets = <<>>
    /\ downloadState = [n \in 1..MaxDeps |-> "idle"]
    /\ installReq = <<>>
    /\ \E n \in 0..MaxMigrated :
         \E ports \in [1..n -> {NoPort} \cup 3000..(3000 + MaxMigrated)] :
          migration = [llonebotPort |-> ports, changed |-> FALSE]

SpecMigrate == InitMigrate /\ [][Migrate]_vars

(* ------------------------------ claims --------------------------------- *)
(* the step is a run of the handler op for id *)
Ran(op, id) == out'.op = op /\ out'.id = id

(* C1: start(id) of a registered instance that has an entry in the running
   table, also one that has produced no output yet, answers AlreadyRunning,
   spawns no process and leaves the table as it is; with an entry, registered
   or not, nothing is spawned *)
C1_StartTwice ==
    [][\A id \in Ids :
         Ran("start", id) /\ runningProcesses[id] # NoProc
           => /\ id \in instances => out'.res = "AlreadyRunning"
              /\ out'.res # "Starting"
              /\ children' = children
              /\ runningProcesses' = runningProcesses]_vars

(* a start was refused as AlreadyRunning while the first process was still starting *)
C1_Witness ==
    \E id \in Ids :
        /\ out.op = "start" /\ out.id = id /\ out.res = "AlreadyRunning"
        /\ runningProcesses[id] # NoProc
        /\ children[runningProcesses[id]].state = "alive"
        /\ ~children[runningProcesses[id]].hasStarted

(* C2: the running table holds, per instance id, at most one process, which
   is a process of that id that has been spawned and neither signalled nor
   closed; start registers a process only for an id that has no entry *)
C2_OneEntryPerId ==
    /\ [](\A id \in Ids :
            runningProcesses[id] # NoProc
              => /\ children[runningProcesses[id]].owner = id
                 /\ children[runningProcesses[id]].state \in {"alive", "spawnfail"})
    /\ [][\A id \in Ids :
            runningProcesses'[id] # NoProc /\ runningProcesses'[id] # runningProcesses[id]
              => /\ runningProcesses[id] = NoProc
                 /\ children[runningProcesses'[id]].state = "unborn"]_vars

(* an instance was started, stopped and started again: its second process is
   the one entry, the first is still on its way out *)
C2_Witness ==
    \E id \in Ids : \E p \in Pids :
        /\ runningProcesses[id] # NoProc /\ runningProcesses[id] # p
        /\ children[p].owner = id /\ children[p].state = "killed"

(* C3: stop(id) without an entry for id answers NotRunning, signals nothing,
   broadcasts nothing and leaves the table and every process as they are *)
C3_StopNotRunning ==
    [][\A id \in Ids :
         Ran("stop", id) /\ runningProcesses[id] = NoProc
           => /\ out'.res = "NotRunning"
              /\ out'.sig = {} /\ out'.ev = <<>>
              /\ runningProcesses' = runningProcesses
              /\ children' = children]_vars

(* a stop was refused as NotRunning while another instance was running *)
C3_Witness ==
    \E id, other \in Ids :
        /\ out.op = "stop" /\ out.id = id /\ out.res = "NotRunning"
        /\ other # id /\ runningProcesses[other] # NoProc

(* C4: an auto-stop request is issued in exactly the steps in which the number
   of running instances goes from 1 to 0 while keep-alive is not set *)
C4_AutoStopIff ==
    [][(pending' = pending + 1)
         <=> /\ runningCount(runningProcesses) = 1
             /\ runningCount(runningProcesses') = 0
             /\ redisKeepAlive # "true"]_vars

(* C5: two instances running, keep-alive not set: while only one of them has
   been stopped (or has exited) no auto-stop request has been sent, with both
   stopped at most one, and once both exit callbacks have run exactly one *)
C5_OneRequest ==
    LET stopped == {p \in {1, 2} : children[p].state \in {"killed", "closed"}}
        running == {p \in {1, 2} : children[p].state = "alive"}
    IN /\ Cardinality(stopped) = 1 /\ Cardinality(running) = 1 => pending = 0
       /\ Cardinality(stopped) = 2 => pending <= 1
       /\ children[1].state = "closed" /\ children[2].state = "closed" => pending = 1

(* C6: the stop request issued when the last instance stops reaches the
   coordinator and does what its stop() does: it answers as /redis/stop
   answers, and a running Redis is signalled and its handle cleared *)
C6_RequestStopsRedis ==
    [][pending' < pending
         => /\ out'.res = (IF redisProcess = NoProc THEN "Redis is not running" ELSE "success")
            /\ redisProcess' = NoProc
            /\ redisProcess # NoProc => redisChildren'[redisProcess].state # "alive"]_vars

(* C7: no auto-stop request is issued in a step taken while the persisted
   keep-alive flag is true, and a close callback that leaves the table empty
   while the flag is not true does issue one: the flag is read at each exit *)
C7_KeepAlive ==
    [][/\ redisKeepAlive = "true" => pending' <= pending
       /\ (\E id \in Ids : Ran("close", id))
            /\ runningCount(runningProcesses') = 0 /\ redisKeepAlive # "true"
          => pending' = pending + 1]_vars

(* the last instance closed while keep-alive was true, after an earlier exit,
   with keep-alive off, had issued a request *)
C7_Witness ==
    /\ redisKeepAlive = "true"
    /\ out.op = "close" /\ runningCount(runningProcesses) = 0
    /\ out.ev[Len(out.ev)] = GLOBAL_LOG("Redis locked - keeping alive")
    /\ pending = 1

(* C8: at most one Redis process spawned by the coordinator is alive at a
   time, and a start while the handle is set answers 'already running'
   without spawning *)
C8_OneRedis ==
    /\ [](Cardinality({p \in RPids : redisChildren[p].state = "alive"}) <= 1)
    /\ [][\A r \in Reqs :
            Ran("redis/start", r) /\ redisReq[r].pc = "idle" /\ redisProcess # NoProc
              => /\ out'.res = "Redis is already running"
                 /\ UNCHANGED <<redisProcess, redisChildren, redisReq>>]_vars

Min(a, b) == IF a < b THEN a ELSE b
Max(a, b) == IF a > b THEN a ELSE b

(* a buffer that has had n lines appended holds Min(n, cap) of them, the
   newest being n and the oldest n - Len + 1 *)
Bounded(buf, n, cap) ==
    /\ Len(buf) <= cap
    /\ Len(buf) = Min(n, cap)
    /\ buf # <<>> => buf[1] = n - Len(buf) + 1 /\ buf[Len(buf)] = n

(* C9: every log buffer (per instance, global, per terminal) never holds more
   lines than its capacity, 1000 / 500 / 500, and an append to a full buffer
   drops exactly one line, the oldest *)
C9_BufferBounded ==
    /\ \A id \in Ids : Bounded(logHistory[id], appended.log[id], 1000)
    /\ Bounded(globalLogHistory, appended.global, 500)
    /\ \A id \in Ids : Bounded(terminalLogs[id], appended.term[id], 500)

(* the 1001st line has been appended to an instance buffer, the 501st to the
   global buffer or to a terminal buffer *)
C9_Witness ==
    \/ appended.log[1] = 1001 /\ logHistory[1][1] = 2
    \/ appended.global = 501 /\ globalLogHistory[1] = 2
    \/ appended.term[1] = 501 /\ terminalLogs[1][1] = 2

(* the lines of one buffer an observer was sent, in the order sent *)
Lines(o, type, id) ==
    LET sel == SelectSeq(received[o], LAMBDA m : m.type = type /\ m.instanceId = id)
    IN [k \in 1..Len(sel) |-> sel[k].data]

FromTo(a, b) == [k \in 1..(b - a + 1) |-> a + k - 1]

(* a message of a line that was appended after observer o connected *)
Live(o, m) ==
    \/ m.type = "LOG" /\ m.data > subscribed[o].log[m.instanceId]
    \/ m.type = "GLOBAL_LOG" /\ m.data > subscribed[o].global

(* no line appended after o connected was sent before a line appended earlier *)
ReplayFirst(o) ==
    \A k \in 1..(Len(received[o]) - 1) :
        Live(o, received[o][k]) => Live(o, received[o][k + 1])

(* C10 as stated: an observer that connected after N lines were appended to
   the buffer of instance i and M to the global buffer has received all N and
   all M lines, in order, before any line appended later *)
C10_ReplayAll ==
    \A o \in clients :
        /\ \A id \in Ids : Lines(o, "LOG", id) = FromTo(1, appended.log[id])
        /\ Lines(o, "GLOBAL_LOG", 0) = FromTo(1, appended.global)
        /\ ReplayFirst(o)

(* C10 amended: the observer has received the lines the buffers held when it
   connected, the last Min(N, 1000) and the last Min(M, 500), in order, before
   any line appended later, and every later line *)
C10_ReplayHeld ==
    \A o \in clients :
        /\ \A id \in Ids :
             Lines(o, "LOG", id) =
                 FromTo(Max(1, subscribed[o].log[id] - 1000 + 1), appended.log[id])
        /\ Lines(o, "GLOBAL_LOG", 0) =
                 FromTo(Max(1, subscribed[o].global - 500 + 1), appended.global)
        /\ ReplayFirst(o)

(* an observer connected after 1001 lines were appended to the buffer of an
   instance and some to the global buffer, and a line was appended after that *)
C10_Witness ==
    \E o \in clients :
        /\ subscribed[o].log[1] > 1000 /\ subscribed[o].global > 0
        /\ appended.log[1] > subscribed[o].log[1]
        /\ Len(Lines(o, "LOG", 1)) = 1001

(* the number of messages of the line n of the buffer (type, id) sent to o *)
Copies(o, type, id, n) ==
    Len(SelectSeq(received[o],
                  LAMBDA m : m.type = type /\ m.instanceId = id /\ m.data = n))

(* every line of buf was sent to o exactly once *)
OnceEach(o, type, id, buf) == \A k \in 1..Len(buf) : Copies(o, type, id, buf[k]) = 1

(* C11: every line held in a buffer (of an instance, the global one, of a
   terminal) has been sent exactly once, in the replay or live, to each
   observer that is connected *)
C11_ExactlyOnce ==
    \A o \in clients :
        /\ \A id \in Ids : OnceEach(o, "LOG", id, logHistory[id])
        /\ OnceEach(o, "GLOBAL_LOG", 0, globalLogHistory)
        /\ \A id \in Ids : OnceEach(o, "TERMINAL_OUTPUT", id, terminalLogs[id])

(* the effective port of a registered instance: the port field of its record,
   else the port in its config file, else the default of its type *)
EffectivePort(i) ==
    IF records[i].port # NoPort THEN records[i].port
    ELSE IF configPort[i] # NoPort THEN configPort[i]
    ELSE IF records[i].type = "yunzai" THEN 2536 ELSE 8080

(* C14: a /create whose port is the effective port of a registered instance
   is refused: the registry and the config files stay as they were and no
   install starts; when the request gets as far as the port check (valid
   name, tools found, name free) the answer is PortConflict naming an
   instance that holds the port *)
C14_CreatePortConflict ==
    [][out'.op = "create" /\ (\E i \in instances : EffectivePort(i) = asked'.port)
         => /\ UNCHANGED <<instances, records, configPort, createReq>>
            /\ \/ out'.res \in {"InvalidName", "RuntimeMissing", "GitMissing"}
               \/ out'.res = "NameConflict" /\ NameTaken(records, asked'.name)
               \/ /\ out'.res = "PortConflict"
                  /\ \E i \in instances : /\ records[i].name = named'
                                            /\ EffectivePort(i) = asked'.port]_vars

(* a create under a free name was refused for the port of a registered instance *)
C14_Witness ==
    /\ out.op = "create" /\ out.res = "PortConflict"
    /\ ~NameTaken(records, asked.name)
    /\ \E i \in instances : records[i].name = named /\ records[i].port = asked.port

(* C15: the record a /create registers has a name and a port that no
   registered instance holds at the time it is registered: the check and the
   commit act on the same registry *)
C15_CreateAtomic ==
    [][out'.op = "created" /\ out'.res = "success"
         => \A i \in instances :
                /\ records[i].port # records'[out'.id].port
                /\ records[i].name # records'[out'.id].name]_vars

(* C12: no two registered instances have the same effective port *)
C12_PortsDistinct ==
    \A i, j \in instances : i # j => EffectivePort(i) # EffectivePort(j)

(* C13: a /config/:id that asks for the effective port of another registered
   instance is answered PortConflict naming such an instance, and leaves the
   registry and the config files as they were, whatever the type *)
C13_ConfigPortConflict ==
    [][/\ out'.op = "config" /\ asked'.seq # asked.seq
       /\ out'.id \in instances
       /\ \E i \in instances \ {out'.id} : EffectivePort(i) = asked'.port
       => /\ out'.res = "PortConflict"
          /\ \E i \in instances \ {out'.id} : /\ records[i].name = named'
                                                 /\ EffectivePort(i) = asked'.port
          /\ UNCHANGED <<instances, records, configPort>>]_vars

(* C16: no two registered instances have the same name *)
C16_NamesDistinct ==
    \A i, j \in instances : i # j => records[i].name # records[j].name

(* the status events of the state machine: stopped -> starting -> running ->
   stopped, starting -> stopped; a repeated stopped changes nothing *)
Legal == {<<"stopped", "starting">>, <<"starting", "running">>,
          <<"running", "stopped">>, <<"starting", "stopped">>,
          <<"stopped", "stopped">>}

(* C17: every STATUS message a handler broadcasts for an instance follows
   the state machine from the status broadcast before it; in particular
   running never follows stopped *)
C17_StatusMachine ==
    [][\A k \in 1..Len(out'.ev) :
          out'.ev[k].type = "STATUS"
          => <<Shown(out.status, SubSeq(out'.ev, 1, k - 1))[out'.ev[k].instanceId],
               out'.ev[k].data>> \in Legal]_vars

(* logHistory[id] after the broadcastLog calls among the broadcasts ev *)
RECURSIVE LoggedAfter(_, _, _)
LoggedAfter(buf, ev, id) ==
    IF ev = <<>> THEN buf
    ELSE LoggedAfter(IF Head(ev).type = "LOG" /\ Head(ev).instanceId = id
                     THEN storeLog(buf, Head(ev).data) ELSE buf,
                     Tail(ev), id)

Holds(buf, line) == \E k \in 1..Len(buf) : buf[k] = line

(* C18: a start of a stopped instance that is accepted broadcasts starting
   and registers the process; the first output line of that process then
   broadcasts running, and when running is broadcast the line is already in
   the log history of the instance *)
C18_Lifecycle ==
    [][/\ \A id \in instances :
            Ran("start", id) /\ runningProcesses[id] = NoProc /\ out'.res = "Starting"
            => /\ \E k \in 1..Len(out'.ev) : out'.ev[k] = STATUS(id, "starting")
               /\ runningProcesses'[id] \in Pids
               /\ children'[runningProcesses'[id]].owner = id
       /\ \A p \in Pids :
            /\ out'.op = "stdout"
            /\ ~children[p].hasStarted /\ children'[p].hasStarted
            /\ \E j \in 1..Len(out'.ev) : out'.ev[j].type = "LOG"
            => \E k \in 1..Len(out'.ev) :
                 /\ out'.ev[k] = STATUS(children[p].owner, "running")
                 /\ \A j \in 1..Len(out'.ev) :
                      out'.ev[j].type = "LOG"
                      => Holds(LoggedAfter(logHistory[children[p].owner],
                                           SubSeq(out'.ev, 1, k - 1), children[p].owner),
                               out'.ev[j].data)]_vars

(* an instance was started and its first output, a line, marked it running *)
C18_Witness ==
    /\ out.op = "stdout"
    /\ Len(out.ev) = 2 /\ out.ev[1].type = "LOG" /\ out.ev[2] = STATUS(out.id, "running")
    /\ runningProcesses[out.id] \in Pids
    /\ children[runningProcesses[out.id]].hasStarted

(* C19: /redis/stop with no handle held answers 'Redis is not running',
   signals nothing and changes nothing; a stop that holds a handle signals
   that process alone and clears the handle, so a second stop in a row finds
   no handle *)
C19_StopNoHandle ==
    [][out'.op = "redis/stop"
         => IF redisProcess = NoProc
            THEN /\ out'.res = "Redis is not running"
                 /\ out'.sig = {} /\ out'.ev = <<>>
                 /\ UNCHANGED <<redisProcess, redisChildren, redisReq, redisKeepAlive,
                                pending, instances, runningProcesses, children,
                                logVars, regVars>>
            ELSE /\ out'.sig = {redisProcess}
                 /\ redisProcess' = NoProc]_vars

(* a second stop in a row: the first signalled the process, this one found
   no handle *)
C19_Witness ==
    /\ out.op = "redis/stop" /\ out.res = "Redis is not running"
    /\ redisProcess = NoProc
    /\ \E p \in RPids : redisChildren[p].state = "killed"

(* C20: the close or error callback of a process that is no longer the entry
   of its instance leaves the entry as it is, and sends no auto-stop request
   while the instance has a process in the table *)
C20_StaleCallback ==
    [][\A p \in Pids :
          /\ out'.op \in {"close", "error"}
          /\ children'[p] # children[p]
          /\ runningProcesses[children[p].owner] # p
          => /\ runningProcesses'[children[p].owner] = runningProcesses[children[p].owner]
             /\ runningProcesses[children[p].owner] # NoProc => pending' = pending]_vars

(* the handler that ran removed an entry of the running-process table *)
Removed == \E id \in Ids : runningProcesses[id] # NoProc /\ runningProcesses'[id] = NoProc

(* C21: every handler that removes an entry of the running-process table
   (stop, the error callback, the close callback) recounts the table: when
   no entry is left it sends the auto-stop request, or logs that Redis is
   locked *)
C21_RecountAfterRemoval ==
    [][out'.op \in {"stop", "error", "close"} /\ Removed
         /\ LastInstanceClosed(runningProcesses')
         => IF redisLocked
            THEN /\ pending' = pending
                 /\ \E k \in 1..Len(out'.ev) :
                       out'.ev[k] = GLOBAL_LOG("Redis locked - keeping alive")
            ELSE pending' = pending + 1]_vars

(* C22: a stop of an instance that has an entry answers 'Stop signal sent'
   and, when it returns, the entry is gone, stopped was broadcast and the
   stop marker is in the log history of the instance, while the close
   callback of the process has not run *)
C22_StopOptimistic ==
    [][\A id \in Ids :
          Ran("stop", id) /\ runningProcesses[id] # NoProc
          => /\ out'.res = "StopSent"
             /\ out'.sig = {runningProcesses[id]}
             /\ runningProcesses'[id] = NoProc
             /\ \E k \in 1..Len(out'.ev) : out'.ev[k] = STATUS(id, "stopped")
             /\ Holds(LoggedAfter(logHistory[id], out'.ev, id), "Instance Stopped")
             /\ children'[runningProcesses[id]].state \in {"killed", "spawnfail"}]_vars

(* a running instance was stopped and its process has not closed yet *)
C22_Witness ==
    /\ out.op = "stop" /\ out.res = "StopSent"
    /\ runningProcesses[out.id] = NoProc
    /\ \E p \in out.sig : children[p].state = "killed" /\ children[p].owner = out.id

(* the handler that ran broadcast a log line / the running status *)
SaidLine == \E k \in 1..Len(out'.ev) : out'.ev[k].type = "LOG"
SaidRunning == \E k \in 1..Len(out'.ev) : out'.ev[k] = STATUS(out'.id, "running")

(* C23: an output callback broadcasts running only together with a line,
   never for an empty chunk; and a line of a process that has not been
   marked running marks it running, on stdout and on stderr alike *)
C23_RunningAtFirstLine ==
    [][out'.op \in {"stdout", "stderr"}
         => /\ SaidRunning => SaidLine
            /\ /\ SaidLine
               /\ \A p \in Pids : children[p].owner = out'.id => ~children[p].hasStarted
               => SaidRunning]_vars

(* C24: the status GET /api/instances reports for an instance is the status
   broadcast last for it, stopped if none was *)
C24_ListedStatus ==
    \A id \in instances : listInstances[id] = out.status[id]

(* the handler that ran broadcast a status *)
SaidStatus == \E k \in 1..Len(out'.ev) : out'.ev[k].type = "STATUS"

(* C25: a start of a registered, not running instance whose path does not
   exist answers PathMissing; a start that answers PathMissing spawns
   nothing, adds no entry, broadcasts no status, and leaves the instance
   without an entry, so that the next start is not refused as already
   running *)
C25_PathMissing ==
    [][\A id \in Ids :
          Ran("start", id) /\ out'.res = "PathMissing"
          => /\ id \in instances /\ ~AlreadyRunning(id)
             /\ UNCHANGED <<runningProcesses, children>>
             /\ ~SaidStatus
             /\ runningProcesses'[id] = NoProc]_vars

(* a start failed on the path: the error line was broadcast and the instance
   has no entry *)
C25_Witness ==
    /\ out.op = "start" /\ out.res = "PathMissing"
    /\ out.id \in instances
    /\ runningProcesses[out.id] = NoProc
    /\ \E k \in 1..Len(out.ev) : out.ev[k] = LOG(out.id, "ERROR path not found")

(* C26: the error callback of a process that the OS refused to spawn removes
   the entry of its instance, broadcasts the launch error line and stopped,
   and leaves the entries of the other instances and their processes as
   they were *)
C26_SpawnError ==
    [][\A p \in Pids :
          out'.op = "error" /\ children[p].state = "spawnfail"
          /\ children'[p].state = "errored"
          => /\ out'.id = children[p].owner
             /\ runningProcesses'[out'.id] = NoProc
             /\ out'.ev = <<LOG(out'.id, "Launch Error"), STATUS(out'.id, "stopped")>>
             /\ \A i \in Ids \ {out'.id} : runningProcesses'[i] = runningProcesses[i]
             /\ \A q \in Pids \ {p} : children'[q] = children[q]]_vars

(* a spawn failed while another instance was running, which still has its
   entry and its live process *)
C26_Witness ==
    /\ out.op = "error"
    /\ runningProcesses[out.id] = NoProc
    /\ \E i \in Ids \ {out.id} :
          /\ runningProcesses[i] \in Pids
          /\ children[runningProcesses[i]].state = "alive"

(* C27: a command, and every callback of the process an offline command
   spawns, leaves the running-process table and its processes as they were,
   broadcasts no status and sends no auto-stop request; an offline command
   is accepted only without an entry and adds none; the output of its
   process is in the log history of the instance once it is broadcast *)
C27_CommandFrame ==
    [][\A id \in Ids :
          out'.op \in {"command", "helper output", "helper error", "helper exit"}
          /\ out'.id = id
          => /\ UNCHANGED <<runningProcesses, children, pending>>
             /\ ~SaidStatus
             /\ out'.res = "offline"
                  => /\ runningProcesses'[id] = NoProc
                     /\ helpers'[id] = helpers[id] + 1
             /\ out'.op = "helper output"
                  => Holds(LoggedAfter(logHistory[id], out'.ev, id), "output")]_vars

(* the process of an offline command on a stopped instance has exited *)
C27_Witness ==
    /\ out.op = "helper exit"
    /\ runningProcesses[out.id] = NoProc
    /\ helpers[out.id] = 0

(* C28: a command for an instance that has an entry is either written to its
   stdin or refused as StdinUnavailable, never run offline; the refusal
   echoes nothing to the log, spawns nothing and leaves the table as it was *)
C28_StdinUnavailable ==
    [][\A id \in Ids :
          Ran("command", id) /\ runningProcesses[id] # NoProc
          => /\ out'.res \in {"interactive", "StdinUnavailable"}
             /\ out'.res = "StdinUnavailable"
                  => /\ out'.ev = <<>>
                     /\ UNCHANGED <<runningProcesses, children, helpers>>]_vars

(* a command for a running instance was refused as StdinUnavailable *)
C28_Witness ==
    /\ out.op = "command" /\ out.res = "StdinUnavailable"
    /\ runningProcesses[out.id] \in Pids

(* C29: a /config/:id for a registered instance that asks for a port no
   other instance holds waits for the bind test, the registry untouched, if
   the instance has no entry in the running-process table, and is accepted
   at once if it has one; a bind test that fails rejects the update and
   leaves the registry as it was *)
C29_BindTest ==
    [][/\ /\ out'.op = "config" /\ asked'.seq # asked.seq
          /\ out'.id \in instances /\ asked'.port # NoPort
          /\ \A i \in instances \ {out'.id} : EffectivePort(i) # asked'.port
          => IF runningProcesses[out'.id] = NoProc
             THEN /\ \E q \in DOMAIN configReq' \ DOMAIN configReq :
                        /\ configReq'[q].pc = "bindtest"
                        /\ configReq'[q].id = out'.id
                        /\ configReq'[q].port = asked'.port
                  /\ UNCHANGED <<instances, records, configPort>>
             ELSE /\ out'.res = "success"
                  /\ records'[out'.id].port = asked'.port
                  /\ UNCHANGED configReq
       /\ out'.op = "config" /\ out'.res = "PortInUse"
          => UNCHANGED <<instances, records, configPort>>]_vars

(* C30: getInstancePort answers the port field of the record if it is set,
   else the port in the config file of the instance, in the format of its
   type, if there is one, else the default of the type *)
C30_EffectivePort ==
    out.op = "port" => out.res = EffectivePort(out.id)

(* the last Min(n, cap) of the lines 1..n, in the order appended *)
LastLines(n, cap) == FromTo(n - Min(n, cap) + 1, n)

(* the buffers of every key but the given one are left as they were *)
OtherKeysKept(kind, key) ==
    /\ \A id \in Ids : kind # "log" \/ id # key => logHistory'[id] = logHistory[id]
    /\ kind # "global" => globalLogHistory' = globalLogHistory
    /\ \A id \in Ids : kind # "term" \/ id # key => terminalLogs'[id] = terminalLogs[id]

(* C31: for every key the buffer is the last min(n, capacity) lines of the
   lines appended to that key, in append order, and an append to one key
   leaves the buffer of every other key unchanged; a step that appends
   nothing (closing a terminal) changes no buffer *)
C31_LastLinesInOrder ==
    /\ [](/\ \A id \in Ids : logHistory[id] = LastLines(appended.log[id], 1000)
          /\ globalLogHistory = LastLines(appended.global, 500)
          /\ \A id \in Ids : terminalLogs[id] = LastLines(appended.term[id], 500))
    /\ [][/\ \A id \in Ids : appended'.log[id] # appended.log[id] => OtherKeysKept("log", id)
          /\ appended'.global # appended.global => OtherKeysKept("global", 0)
          /\ \A id \in Ids : appended'.term[id] # appended.term[id] => OtherKeysKept("term", id)
          /\ appended' = appended
               => logHistory' = logHistory /\ globalLogHistory' = globalLogHistory
                  /\ terminalLogs' = terminalLogs]_vars

(* instance 1's buffer has evicted its oldest line while instance 2's buffer
   holds a line of its own, appended in between *)
C31_Witness ==
    /\ appended.log[1] = 1002 /\ logHistory[1][1] = 3 /\ Len(logHistory[1]) = 1000
    /\ appended.log[2] = 1 /\ logHistory[2] = <<1>>

(* C33: when config port updates for distinct stopped instances overlap at
   the bind test, an update that is saved with success leaves the record of
   every other instance as the registry holds it at that moment, so the port
   an overlapping update saved before is still there, and the effective ports
   of the registered instances stay pairwise distinct *)
C33_BothPortsSaved ==
    /\ [](\A i, j \in instances : i # j => EffectivePort(i) # EffectivePort(j))
    /\ [][\A q \in DOMAIN configReq \ DOMAIN configReq' :
            out'.res = "success"
              => \A i \in instances \ {configReq[q].id} : records'[i] = records[i]]_vars

(* C34: the close callback of a resource process clears the handle only when
   the handle refers to that process, so that while a process spawned by
   /redis/start is alive and was not stopped the handle is set (and
   /redis/stop does not answer that Redis is not running) *)
C34_HandleOfLiveProcess ==
    /\ [](\A p \in RPids : redisChildren[p].state = "alive" => redisProcess # NoProc)
    /\ [][\A p \in RPids :
            Ran("redis close", p) /\ redisProcess # p => redisProcess' = redisProcess]_vars

(* C35: every id that has an entry in the running-process table is the id of
   a registered instance: a delete of an instance with a live entry is
   rejected or removes the entry *)
C35_RunningAreRegistered ==
    \A id \in Ids : runningProcesses[id] # NoProc => id \in instances

(* the messages a step sends to an observer that was connected before it *)
Delivered(o) == SubSeq(received'[o], Len(received[o]) + 1, Len(received'[o]))

(* the buffer of instance id holds the line *)
Stored(history, id, line) == \E k \in 1..Len(history[id]) : history[id][k] = line

(* C32: every LOG message a step delivers to a connected observer is in the
   LogBuffer of its instance when the step ends, so that an observer that
   connects next receives it in its replay *)
C32_DeliveredIsStored ==
    [][\A o \in clients :
         \A k \in 1..Len(Delivered(o)) :
           Delivered(o)[k].type = "LOG"
             => Stored(logHistory', Delivered(o)[k].instanceId, Delivered(o)[k].data)]_vars

(* C36: at most one of the connections the adapter created for the link is
   open or connecting, and a step creates a connection only while the link
   is enabled *)
C36_OneConnection ==
    /\ [](Cardinality({s \in DOMAIN sockets :
                          sockets[s].readyState \in {"CONNECTING", "OPEN"}}) <= 1)
    /\ [][Len(sockets') > Len(sockets) => linkStates'[linkId].enabled]_vars

(* the requests whose download of n a cancel can abort *)
Downloading(n) ==
    {t \in DOMAIN installReq : installReq[t].name = n /\ installReq[t].active}

(* C37: a cancel of a dependency whose download is in progress that answers
   success leaves its download state idle, with the download aborted, and
   the failure path of the aborted download leaves the state idle: it does
   not become error, extracting or installed *)
C37_CancelledStaysIdle ==
    [][\A n \in 1..MaxDeps :
         /\ Ran("cancel", n) /\ out'.res = "success" /\ Downloading(n) # {}
              => /\ downloadState'[n] = "idle"
                 /\ \A t \in Downloading(n) : installReq'[t].pc = "rejected"
         /\ (\E t \in DOMAIN installReq :
                installReq[t].name = n /\ installReq[t].pc = "rejected")
            /\ downloadState[n] = "idle"
              => downloadState'[n] = "idle"]_vars

(* C38: the port migration gives every instance an llonebotPort, leaves the
   ports that were there unchanged, and gives each instance without one the
   smallest port from 3000 on that neither an instance had before nor an
   earlier instance was given, so the ports given are pairwise distinct and
   distinct from the ports that were there *)
C38_PortsMigrated ==
    [][LET old == migration.llonebotPort
           new == migration'.llonebotPort
           pre == {old[k] : k \in 1..Len(old)} \ {NoPort}
           fresh == {k \in 1..Len(old) : old[k] = NoPort}
           taken(k) == pre \cup {new[j] : j \in {i \in fresh : i < k}}
       IN /\ Len(new) = Len(old)
          /\ \A k \in 1..Len(new) : new[k] # NoPort
          /\ \A k \in 1..Len(old) : old[k] # NoPort => new[k] = old[k]
          /\ \A k \in fresh :
               /\ new[k] >= 3000
               /\ new[k] \notin taken(k)
               /\ \A p \in 3000..(new[k] - 1) : p \in taken(k)
          /\ \A j, k \in fresh : j # k => new[j] # new[k]
          /\ \A k \in fresh : new[k] \notin pre]_vars

(* the migration ran on a data.json in which the second instance held 3000:
   the instances without a port were given 3001 and 3002 *)
C38_Witness ==
    /\ migration.changed
    /\ migration.llonebotPort = <<3001, 3000, 3002>>

====
